---- MODULE Spec2Model ----
(***************************************************************************)
(* Two-point-difference jump detection of stcal                            *)
(* (src/src/stcal/jump/twopoint_difference.py): calc_med_first_diffs and   *)
(* find_crs, applied to one integration of a ramp cube.                    *)
(*                                                                         *)
(* Numbers.  A float is the empty tuple (NaN) or a one-element tuple       *)
(* <<v>> with v an integer.  Medians are halves of integers, so every      *)
(* median is stored DOUBLED (2.5 is <<5>>).  sigma is stored as            *)
(* 4*nframes*sigma^2 and a ratio as the pair <<n, d>> with                 *)
(* ratio^2 = n / d; <<n, 0>> with n > 0 is +inf.  Comparisons of ratios    *)
(* with thresholds cross-multiply, so they are exact; the thresholds are   *)
(* non-negative integers.                                                  *)
(***************************************************************************)
EXTENDS Integers, Sequences, FiniteSets, TLC

(***************************************************************************)
(* Bounds of the model.                                                    *)
(***************************************************************************)
\* number of groups of the single-pixel cubes (ndiffs = NGroups - 1)
NGroups == 5
\* rows and columns of the multi-pixel cubes
NRows == 2
NCols == 2
\* number of first differences of the arrays calc_med_first_diffs is applied to
MedLen == 4

(***************************************************************************)
(* Floats.                                                                 *)
(***************************************************************************)
NaN == <<>>

Fin(v) == <<v>>

isnan(x) == x = NaN

Abs(v) == IF v < 0 THEN -v ELSE v

Min(S) == CHOOSE x \in S : \A y \in S : x <= y

\* an array with its entries computed once (f @@ <<>> is f, tabulated)
Array(f) == f @@ <<>>

\* the indices of the entries of a 1-D array that are not NaN
Usable(a) == {i \in DOMAIN a : ~isnan(a[i])}

\* the last index of the largest absolute value
nanargmax_abs_last(a) ==
    CHOOSE i \in Usable(a) :
        /\ \A j \in Usable(a) : Abs(a[j][1]) <= Abs(a[i][1])
        /\ \A j \in Usable(a) : j > i => Abs(a[j][1]) < Abs(a[i][1])

\* np.nanargmax(np.abs(a)): the first index of the largest absolute value
nanargmax_abs(a) ==
    CHOOSE i \in Usable(a) :
        /\ \A j \in Usable(a) : Abs(a[j][1]) <= Abs(a[i][1])
        /\ \A j \in Usable(a) : j < i => Abs(a[j][1]) < Abs(a[i][1])

\* the k-th smallest (k from 0) of the entries of a with index in S
KthSmallest(a, S, k) ==
    CHOOSE x \in {a[i][1] : i \in S} :
        /\ Cardinality({i \in S : a[i][1] < x}) <= k
        /\ Cardinality({i \in S : a[i][1] <= x}) > k

\* np.nanmedian over the entries of a with index in S (all finite), doubled
nanmedian(a, S) ==
    LET n == Cardinality(S) IN
    IF n = 0 THEN NaN
    ELSE IF n % 2 = 1 THEN Fin(2 * KthSmallest(a, S, (n - 1) \div 2))
    ELSE Fin(KthSmallest(a, S, (n \div 2) - 1) + KthSmallest(a, S, n \div 2))

(***************************************************************************)
(* calc_med_first_diffs, the single-pixel (1-D) branch.                    *)
(***************************************************************************)
calc_med_first_diffs_1d(first_diffs) ==
    LET num_usable_groups == Cardinality(Usable(first_diffs)) IN
    IF num_usable_groups >= 4
    THEN nanmedian(first_diffs, Usable(first_diffs) \ {nanargmax_abs(first_diffs)})
    ELSE IF num_usable_groups = 3
    THEN nanmedian(first_diffs, Usable(first_diffs))
    ELSE IF num_usable_groups = 2
    THEN Fin(2 * Min({Abs(first_diffs[i][1]) : i \in Usable(first_diffs)}))
    ELSE NaN

(***************************************************************************)
(* calc_med_first_diffs, the 3-D branch.  first_diffs[g][r][c].            *)
(***************************************************************************)
\* first_diffs[:, r, c]
Pix(a, r, c) == Array([g \in DOMAIN a |-> a[g][r][c]])

Rows(a) == DOMAIN a[0]

Cols(a) == DOMAIN a[0][0]

\* np.nanmin(two_slice): one minimum over the whole slice of the pixels with
\* 2 usable differences, no axis and no absolute value
two_slice_nanmin(first_diffs) ==
    Min({first_diffs[g][r][c][1] :
            <<g, r, c>> \in {t \in (DOMAIN first_diffs) \X Rows(first_diffs) \X Cols(first_diffs) :
                /\ Cardinality(Usable(Pix(first_diffs, t[2], t[3]))) = 2
                /\ ~isnan(first_diffs[t[1]][t[2]][t[3]])}})

calc_med_first_diffs_3d(first_diffs) ==
    Array([r \in Rows(first_diffs) |-> Array([c \in Cols(first_diffs) |->
        LET pix == Pix(first_diffs, r, c)
            num_usable_groups == Cardinality(Usable(pix))
        IN  IF num_usable_groups >= 4
            THEN nanmedian(pix, Usable(pix) \ {nanargmax_abs(pix)})
            ELSE IF num_usable_groups = 3
            THEN nanmedian(pix, Usable(pix))
            ELSE IF num_usable_groups = 2
            THEN Fin(2 * two_slice_nanmin(first_diffs))
            ELSE NaN])])

(***************************************************************************)
(* DQ words are naturals; the flag values come from the caller's dqflags.  *)
(***************************************************************************)
DO_NOT_USE == 1

SATURATED == 2

RECURSIVE bitwise_or(_, _)
bitwise_or(a, b) ==
    IF a = 0 THEN b
    ELSE IF b = 0 THEN a
    ELSE (IF a % 2 = 1 \/ b % 2 = 1 THEN 1 ELSE 0) + 2 * bitwise_or(a \div 2, b \div 2)

RECURSIVE bitwise_and(_, _)
bitwise_and(a, b) ==
    IF a = 0 \/ b = 0 THEN 0
    ELSE (IF a % 2 = 1 /\ b % 2 = 1 THEN 1 ELSE 0) + 2 * bitwise_and(a \div 2, b \div 2)

\* the flag stored over the word instead of OR-ed into it
set_jump_det_overwrite(word, jump_det) == jump_det

\* np.bitwise_or(word, dqflags["JUMP_DET"])
set_jump_det(word, jump_det) == bitwise_or(word, jump_det)

\* what a store of the Python integer v into an np.uint8 array leaves there when
\* it does not raise: v itself when it fits, v modulo 2^8 otherwise
uint8(v) == v % 256

VARIABLES
    \* the arguments of find_crs
    dataa,                      \* dataa[g][r][c], one integration
    group_dq,                   \* group_dq[g][r][c]
    read_noise,                 \* read_noise[r][c]
    normal_rej_thresh,
    two_diff_rej_thresh,
    three_diff_rej_thresh,
    nframes,
    flag_4_neighbors,
    max_jump_to_flag_neighbors,
    min_jump_to_flag_neighbors,
    JUMP_DET,                   \* dqflags["JUMP_DET"]
    \* the argument of calc_med_first_diffs
    med_in,                     \* a 3-D array of first differences
    \* where the run is, and what the calls returned
    split,                      \* the first row of the second row band (0: no bands)
    pc,
    ret,                        \* find_crs on the whole cube
    ret2,                       \* find_crs again, on ret.gdq
    band_ret,                   \* find_crs on each row band
    joined,                     \* the group DQ rebuilt from the bands
    med_1d,                     \* calc_med_first_diffs on each pixel of med_in
    med_3d,                     \* calc_med_first_diffs on med_in
    \* a call of one of the ramp fitting utilities
    call,                       \* its name (call.fn) and its arguments
    result                      \* what it returned, and what it left in its arguments

vars == <<dataa, group_dq, read_noise, normal_rej_thresh, two_diff_rej_thresh,
          three_diff_rej_thresh, nframes, flag_4_neighbors,
          max_jump_to_flag_neighbors, min_jump_to_flag_neighbors, JUMP_DET,
          med_in, split, pc, ret, ret2, band_ret, joined, med_1d, med_3d,
          call, result>>

(***************************************************************************)
(* find_crs: the initial pass.                                             *)
(***************************************************************************)
\* dat[np.where(np.bitwise_and(gdq_integ, flag))] = np.nan, for both flags
masked(data, gdq) ==
    Array([g \in DOMAIN data |-> Array([r \in Rows(data) |-> Array([c \in Cols(data) |->
        IF \/ bitwise_and(gdq[g][r][c], SATURATED) # 0
           \/ bitwise_and(gdq[g][r][c], DO_NOT_USE) # 0
        THEN NaN ELSE Fin(data[g][r][c])])])])

\* np.diff(dat, axis=0)
np_diff(dat) ==
    Array([g \in 0..(Cardinality(DOMAIN dat) - 2) |-> Array([r \in Rows(dat) |-> Array([c \in Cols(dat) |->
        IF isnan(dat[g][r][c]) \/ isnan(dat[g + 1][r][c]) THEN NaN
        ELSE Fin(dat[g + 1][r][c][1] - dat[g][r][c][1])])])])

\* np.sqrt(np.abs(median) + rn2 / nframes), stored as 4 * nframes * sigma^2
sigma_of(median, rn2) ==
    IF isnan(median) THEN NaN ELSE Fin(2 * (Abs(median[1]) * nframes + 2 * rn2))

\* sigma[np.where(sigma == 0.)] = np.nan
reset_zero_sigma(sigma) == IF sigma = Fin(0) THEN NaN ELSE sigma

\* np.abs(diff - median) / sigma: NaN, +inf (x / 0) or a finite quotient
ratio_of(diff, median, sigma) ==
    IF isnan(diff) \/ isnan(median) \/ isnan(sigma) THEN NaN
    ELSE LET n == (2 * diff[1] - median[1]) * (2 * diff[1] - median[1]) * nframes
         IN  IF sigma[1] = 0 /\ n = 0 THEN NaN ELSE <<n, sigma[1]>>

\* ratio > thresh and ratio < thresh; false for NaN
gt(ratio, thresh) == ~isnan(ratio) /\ ratio[1] > thresh * thresh * ratio[2]

lt(ratio, thresh) == ~isnan(ratio) /\ ratio[1] < thresh * thresh * ratio[2]

ratio_gt(a, b) == a[1] * b[2] > b[1] * a[2]

\* np.nanargmax of a 1-D array of ratios (not all NaN): the first index of the
\* largest one
nanargmax(a) ==
    CHOOSE i \in Usable(a) :
        /\ \A j \in Usable(a) : ~ratio_gt(a[j], a[i])
        /\ \A j \in Usable(a) : j < i => ratio_gt(a[i], a[j])

\* np.nanmax along the group axis: NaN (and a warning) for an all-NaN slice
nanmax(a) == IF Usable(a) = {} THEN NaN ELSE a[nanargmax(a)]

\* the threshold test of the initial pass for one pixel
initial_cr(pix_first_diffs, max_ratio) ==
    LET usable == Cardinality(Usable(pix_first_diffs)) IN
    \/ usable >= 4 /\ gt(max_ratio, normal_rej_thresh)
    \/ usable = 3 /\ gt(max_ratio, three_diff_rej_thresh)
    \/ usable = 2 /\ gt(max_ratio, two_diff_rej_thresh)

(***************************************************************************)
(* find_crs: the refinement loop of one pixel.  The loop state holds the   *)
(* pixel's first differences (CRs clipped to NaN), pix_cr_mask (FALSE      *)
(* denotes a CR), new_CR_found, whether np.nanargmax raised ValueError     *)
(* (all-NaN slice), and one record per iteration executed.                 *)
(***************************************************************************)
loop_init(pix_first_diffs, pix_ratio) ==
    [pix_first_diffs |-> pix_first_diffs,
     pix_cr_mask |-> [i \in DOMAIN pix_first_diffs |-> i # nanargmax(pix_ratio)],
     new_CR_found |-> TRUE,
     raised |-> FALSE,
     iters |-> <<>>]

\* the loop entered with 2 finite differences, the newest flag among them
loop_cond_one_left(st) ==
    st.new_CR_found /\ Cardinality(Usable(st.pix_first_diffs)) > 1

loop_cond(st) ==
    st.new_CR_found /\ Cardinality(Usable(st.pix_first_diffs)) > 2

\* rej_thresh = normal_rej_thresh, whatever the number of differences left
rej_thresh_normal(usable) == normal_rej_thresh

\* if ... == 3: three_diff_rej_thresh; if ... == 2: two_diff_rej_thresh
rej_thresh_of(usable) ==
    IF usable = 2 THEN two_diff_rej_thresh
    ELSE IF usable = 3 THEN three_diff_rej_thresh
    ELSE normal_rej_thresh

loop_body(st, pix_rn2) ==
    LET clipped == [i \in DOMAIN st.pix_first_diffs |->
                        IF st.pix_cr_mask[i] THEN st.pix_first_diffs[i] ELSE NaN]
        new_pix_median_diffs == calc_med_first_diffs_1d(clipped)
        new_pix_sigma == sigma_of(new_pix_median_diffs, pix_rn2)
        new_pix_ratio == [i \in DOMAIN clipped |->
                            ratio_of(clipped[i], new_pix_median_diffs, new_pix_sigma)]
        usable == Cardinality(Usable(clipped))
        rej_thresh == rej_thresh_of(usable)
    IN  IF Usable(new_pix_ratio) = {}
        THEN [st EXCEPT !.pix_first_diffs = clipped, !.new_CR_found = FALSE,
                        !.raised = TRUE]
        ELSE LET idx == nanargmax(new_pix_ratio)
                 found == gt(new_pix_ratio[idx], rej_thresh)
             IN  [pix_first_diffs |-> clipped,
                  pix_cr_mask |-> IF found THEN [st.pix_cr_mask EXCEPT ![idx] = FALSE]
                                  ELSE st.pix_cr_mask,
                  new_CR_found |-> found,
                  raised |-> FALSE,
                  iters |-> Append(st.iters,
                                [usable |-> usable, sigma |-> new_pix_sigma,
                                 rej_thresh |-> rej_thresh, idx |-> idx,
                                 max_ratio |-> new_pix_ratio[idx],
                                 found |-> found])]

RECURSIVE run_loop(_, _)
run_loop(st, pix_rn2) ==
    IF st.raised \/ ~loop_cond(st) THEN st ELSE run_loop(loop_body(st, pix_rn2), pix_rn2)

(***************************************************************************)
(* find_crs: the neighbours.                                               *)
(***************************************************************************)
\* ratio[cr_group - 1, cr_row, cr_col]: for cr_group = 0 the index -1 is the
\* last first difference
ratio_before(ratio, g, r, c) ==
    ratio[IF g = 0 THEN Cardinality(DOMAIN ratio) - 1 ELSE g - 1][r][c]

\* "Jumps must be in a certain range to have neighbors flagged"
in_range(ratio, g, r, c) ==
    /\ lt(ratio_before(ratio, g, r, c), max_jump_to_flag_neighbors)
    /\ gt(ratio_before(ratio, g, r, c), min_jump_to_flag_neighbors)

\* the (group, row, col) of np.where(gdq[integ] & JUMP_DET) that pass the range test
flagging(gdq, ratio) ==
    {t \in (DOMAIN gdq) \X Rows(gdq) \X Cols(gdq) :
        /\ bitwise_and(gdq[t[1]][t[2]][t[3]], JUMP_DET) # 0
        /\ in_range(ratio, t[1], t[2], t[3])}

\* the in-image pixels a jump at (r, c) flags: row - 1 unless row = 0, row + 1
\* unless row = nrows - 1, col - 1 unless col = 0, col + 1 unless col = ncols - 1
neighbors(r, c, nrows, ncols) ==
    (IF r # 0 THEN {<<r - 1, c>>} ELSE {})
        \cup (IF r # nrows - 1 THEN {<<r + 1, c>>} ELSE {})
        \cup (IF c # 0 THEN {<<r, c - 1>>} ELSE {})
        \cup (IF c # ncols - 1 THEN {<<r, c + 1>>} ELSE {})

(***************************************************************************)
(* find_crs on one integration.  raises_on_overflow is the build's answer  *)
(* to a store of an out-of-range Python integer into an np.uint8 array:    *)
(* OverflowError (TRUE) or a silent wrap (FALSE).  The record returned     *)
(* holds the three arrays find_crs returns (empty when it raised) and the  *)
(* locals the claims speak of.                                             *)
(***************************************************************************)
find_crs(data, gdq_in, rn, raises_on_overflow) ==
    LET ngroups == Cardinality(DOMAIN data)
        nrows == Cardinality(Rows(data))
        ncols == Cardinality(Cols(data))
        read_noise_2 == Array([r \in Rows(data) |-> Array([c \in Cols(data) |-> rn[r][c] * rn[r][c]])])
        dat == masked(data, gdq_in)
        first_diffs == np_diff(dat)
        median_diffs == calc_med_first_diffs_3d(first_diffs)
        sigma == Array([r \in Rows(data) |-> Array([c \in Cols(data) |->
                    reset_zero_sigma(sigma_of(median_diffs[r][c], read_noise_2[r][c]))])])
        ratio == Array([g \in DOMAIN first_diffs |-> Array([r \in Rows(data) |-> Array([c \in Cols(data) |->
                    ratio_of(first_diffs[g][r][c], median_diffs[r][c], sigma[r][c])])])])
        max_ratio == Array([r \in Rows(data) |-> Array([c \in Cols(data) |-> nanmax(Pix(ratio, r, c))])])
        all_crs == {p \in Rows(data) \X Cols(data) :
                        initial_cr(Pix(first_diffs, p[1], p[2]), max_ratio[p[1]][p[2]])}
        loops == Array([p \in all_crs |->
                    run_loop(loop_init(Pix(first_diffs, p[1], p[2]), Pix(ratio, p[1], p[2])),
                             read_noise_2[p[1]][p[2]])])
        \* gdq[integ, 1:, row, col] |= JUMP_DET * np.invert(pix_cr_mask)
        gdq_det == Array([g \in DOMAIN data |-> Array([r \in Rows(data) |-> Array([c \in Cols(data) |->
                    IF g >= 1 /\ <<r, c>> \in all_crs /\ ~loops[<<r, c>>].pix_cr_mask[g - 1]
                    THEN set_jump_det(gdq_in[g][r][c], JUMP_DET)
                    ELSE gdq_in[g][r][c]])])])
        crs == IF flag_4_neighbors THEN flagging(gdq_det, ratio) ELSE {}
        gdq_out == Array([g \in DOMAIN data |-> Array([r \in Rows(data) |-> Array([c \in Cols(data) |->
                    IF \E t \in crs : t[1] = g /\ <<r, c>> \in neighbors(t[2], t[3], nrows, ncols)
                    THEN set_jump_det(gdq_det[g][r][c], JUMP_DET)
                    ELSE gdq_det[g][r][c]])])])
        row_below_gdq == Array([g \in DOMAIN data |-> Array([c \in Cols(data) |->
                    IF <<g, 0, c>> \in crs THEN uint8(JUMP_DET) ELSE 0])])
        row_above_gdq == Array([g \in DOMAIN data |-> Array([c \in Cols(data) |->
                    IF <<g, nrows - 1, c>> \in crs THEN uint8(JUMP_DET) ELSE 0])])
        value_error == \E p \in all_crs : loops[p].raised
        overflow_error == /\ raises_on_overflow
                          /\ JUMP_DET > 255
                          /\ \E t \in crs : t[2] = 0 \/ t[2] = nrows - 1
        raised == value_error \/ overflow_error
    IN  [raised |-> raised,
         gdq |-> IF raised THEN <<>> ELSE gdq_out,
         row_below_gdq |-> IF raised THEN <<>> ELSE row_below_gdq,
         row_above_gdq |-> IF raised THEN <<>> ELSE row_above_gdq,
         first_diffs |-> first_diffs,
         median_diffs |-> median_diffs,
         sigma |-> sigma,
         ratio |-> ratio,
         all_crs |-> all_crs,
         loops |-> loops,
         gdq_det |-> IF value_error THEN <<>> ELSE gdq_det]

(***************************************************************************)
(* The inputs.  Three families of initial states:                          *)
(*   "pixel"  one-pixel cubes of NGroups groups, every ramp with first     *)
(*            differences in DiffVals and every DQ pattern of DqPatterns;  *)
(*   "image"  NRows x NCols cubes: a quiet background and two pixels,      *)
(*            anywhere, drawn from ImgCases;                               *)
(*   "med"    arrays of first differences for calc_med_first_diffs.        *)
(***************************************************************************)
DiffVals == {0, 5, 100}

ReadNoises == {0, 1}

\* dqflags["JUMP_DET"]: bit 2 (the value the pipelines use) or bit 8
JumpDets == {4, 256}

\* a DQ bit find_crs does not interpret
NO_GAIN_VALUE == 8

\* <<normal_rej_thresh, three_diff_rej_thresh, two_diff_rej_thresh>>
Thresholds == {<<6, 5, 4>>}

\* <<min_jump_to_flag_neighbors, max_jump_to_flag_neighbors>>
JumpRanges == {<<4, 100>>}

NFrames == {1}

\* the ramp that starts at 0 and has the first differences d
RampOf(d) ==
    LET RECURSIVE Sum(_)
        Sum(g) == IF g = 0 THEN 0 ELSE Sum(g - 1) + d[g - 1]
    IN  [g \in 0..Cardinality(DOMAIN d) |-> Sum(g)]

\* DQ patterns of one ramp: saturated from group t on (t = NGroups: clean),
\* one group carrying JUMP_DET, DO_NOT_USE or NO_GAIN_VALUE
SatTail(t) == [g \in 0..(NGroups - 1) |-> IF g >= t THEN SATURATED ELSE 0]

FlagAt(g0, w) == [g \in 0..(NGroups - 1) |-> IF g = g0 THEN w ELSE 0]

DqPatterns(jump_det) ==
    {SatTail(t) : t \in 0..NGroups}
        \cup {FlagAt(g, w) : g \in 0..(NGroups - 1),
                             w \in {jump_det, DO_NOT_USE, NO_GAIN_VALUE}}

\* the cube of an image f of per-group arrays: f[r][c][g] at [g][r][c]
Cube(f) ==
    [g \in 0..(NGroups - 1) |-> [r \in DOMAIN f |-> [c \in DOMAIN f[r] |->
        f[r][c][g]]]]

\* the pixels of the image family
Flat(v) == [i \in 0..(NGroups - 2) |-> v]

Step(v, w) == [i \in 0..(NGroups - 2) |-> IF i = NGroups - 2 THEN w ELSE v]

ImgDiffs == {Flat(5), Step(5, 100), Step(0, 5)}

ImgDq(jump_det) == {SatTail(NGroups), SatTail(3), FlagAt(0, jump_det)}

ImgCases(jump_det) ==
    {[ramp |-> RampOf(d), dq |-> q] : d \in ImgDiffs, q \in ImgDq(jump_det)}

Background == [ramp |-> RampOf(Flat(5)), dq |-> SatTail(NGroups)]

\* where the two pixels of the image family sit: the corner pixel and the pixel
\* next to it in its row or in its column
Pairs == {<<<<0, 0>>, <<0, 1>>>>, <<<<0, 0>>, <<1, 0>>>>}

None == <<>>

InitSettings ==
    /\ \E t \in Thresholds :
        /\ normal_rej_thresh = t[1]
        /\ three_diff_rej_thresh = t[2]
        /\ two_diff_rej_thresh = t[3]
    /\ \E j \in JumpRanges :
        /\ min_jump_to_flag_neighbors = j[1]
        /\ max_jump_to_flag_neighbors = j[2]
    /\ nframes \in NFrames

InitResults ==
    /\ ret = None
    /\ ret2 = None
    /\ band_ret = None
    /\ joined = None
    /\ med_1d = None
    /\ med_3d = None
    /\ call = None
    /\ result = None

InitPixel ==
    /\ InitSettings
    /\ JUMP_DET = Min(JumpDets)
    /\ flag_4_neighbors = FALSE
    /\ \E d \in [0..(NGroups - 2) -> DiffVals] :
        dataa = Cube([r \in 0..0 |-> [c \in 0..0 |-> RampOf(d)]])
    /\ \E q \in DqPatterns(JUMP_DET) :
        group_dq = Cube([r \in 0..0 |-> [c \in 0..0 |-> q]])
    /\ \E n \in ReadNoises : read_noise = [r \in 0..0 |-> [c \in 0..0 |-> n]]
    /\ split = 0
    /\ med_in = None
    /\ pc = "start"
    /\ InitResults

InitImage ==
    /\ InitSettings
    /\ JUMP_DET \in JumpDets
    /\ flag_4_neighbors \in BOOLEAN
    /\ \E pq \in Pairs :
        /\ \E a \in ImgCases(JUMP_DET), b \in ImgCases(JUMP_DET) :
            LET case == [r \in 0..(NRows - 1) |-> [c \in 0..(NCols - 1) |->
                            IF <<r, c>> = pq[1] THEN a
                            ELSE IF <<r, c>> = pq[2] THEN b ELSE Background]]
            IN  /\ dataa = Cube([r \in 0..(NRows - 1) |-> [c \in 0..(NCols - 1) |->
                                    case[r][c].ramp]])
                /\ group_dq = Cube([r \in 0..(NRows - 1) |-> [c \in 0..(NCols - 1) |->
                                    case[r][c].dq]])
    /\ read_noise = [r \in 0..(NRows - 1) |-> [c \in 0..(NCols - 1) |-> 1]]
    /\ split \in 1..(NRows - 1)
    /\ med_in = None
    /\ pc = "start"
    /\ InitResults

\* the arrays of calc_med_first_diffs: one row; pixel 0 has any MedLen entries,
\* the other pixel two entries and NaN after them
MedVals == {NaN, Fin(-5), Fin(3), Fin(5)}

InitMed ==
    /\ \E a \in [0..(MedLen - 1) -> MedVals], b \in [0..1 -> MedVals] :
        med_in = [g \in 0..(MedLen - 1) |-> [r \in 0..0 |-> [c \in 0..1 |->
                    IF c = 0 THEN a[g] ELSE IF g < 2 THEN b[g] ELSE NaN]]]
    /\ dataa = None
    /\ group_dq = None
    /\ read_noise = None
    /\ normal_rej_thresh = 0
    /\ three_diff_rej_thresh = 0
    /\ two_diff_rej_thresh = 0
    /\ min_jump_to_flag_neighbors = 0
    /\ max_jump_to_flag_neighbors = 0
    /\ nframes = 1
    /\ flag_4_neighbors = FALSE
    /\ JUMP_DET = Min(JumpDets)
    /\ split = 0
    /\ pc = "med"
    /\ InitResults

(***************************************************************************)
(* The calls.                                                              *)
(***************************************************************************)
\* what the build does with an out-of-range store into an np.uint8 array; the
\* choice is only there to make when JUMP_DET does not fit 8 bits
Builds == IF JUMP_DET > 255 THEN BOOLEAN ELSE {FALSE}

settings == <<normal_rej_thresh, two_diff_rej_thresh, three_diff_rej_thresh, nframes,
              flag_4_neighbors, max_jump_to_flag_neighbors,
              min_jump_to_flag_neighbors, JUMP_DET>>

inputs == <<dataa, group_dq, read_noise, med_in, split>>

\* find_crs on the whole cube
RunWhole ==
    /\ pc = "start"
    /\ \E raises_on_overflow \in Builds :
        ret' = find_crs(dataa, group_dq, read_noise, raises_on_overflow)
    /\ pc' = "whole"
    /\ UNCHANGED <<settings, inputs, call, result, ret2, band_ret, joined, med_1d, med_3d>>

\* find_crs a second time, the group DQ it returned as its input
RunAgain ==
    /\ pc = "whole"
    /\ ~ret.raised
    /\ \E raises_on_overflow \in Builds :
        ret2' = find_crs(dataa, ret.gdq, read_noise, raises_on_overflow)
    /\ pc' = "again"
    /\ UNCHANGED <<settings, inputs, call, result, ret, band_ret, joined, med_1d, med_3d>>

\* the row bands [lo, hi) the harness cuts the image into
Bands == <<<<0, split>>, <<split, Cardinality(Rows(dataa))>>>>

\* the rows lo .. hi - 1 of a cube or of an image, as an array of its own
SliceRows3(a, lo, hi) ==
    [g \in DOMAIN a |-> [r \in 0..(hi - lo - 1) |-> a[g][r + lo]]]

SliceRows2(a, lo, hi) == [r \in 0..(hi - lo - 1) |-> a[r + lo]]

\* find_crs on one row band; the bands share nothing and are run in order
RunBand(b) ==
    /\ pc = "again" \/ (pc = "whole" /\ ret.raised)
    /\ split # 0
    /\ b \in DOMAIN Bands
    /\ b = Len(band_ret) + 1
    /\ \E raises_on_overflow \in Builds :
        band_ret' = Append(band_ret,
            find_crs(SliceRows3(dataa, Bands[b][1], Bands[b][2]),
                     SliceRows3(group_dq, Bands[b][1], Bands[b][2]),
                     SliceRows2(read_noise, Bands[b][1], Bands[b][2]),
                     raises_on_overflow))
    /\ UNCHANGED <<settings, inputs, call, result, pc, ret, ret2, joined, med_1d, med_3d>>

\* the band that holds row r
BandOf(r) == CHOOSE b \in DOMAIN Bands : Bands[b][1] <= r /\ r < Bands[b][2]

\* the reduction step: the bands' group DQs concatenated along rows, each band's
\* row_above_gdq OR-ed into the first row of the band above it and its
\* row_below_gdq into the last row of the band below it
JoinBands ==
    /\ pc \in {"whole", "again"}
    /\ split # 0
    /\ DOMAIN band_ret = DOMAIN Bands
    /\ \A b \in DOMAIN Bands : ~band_ret[b].raised
    /\ joined' =
        [g \in DOMAIN dataa |-> [r \in Rows(dataa) |-> [c \in Cols(dataa) |->
            LET b == BandOf(r)
                own == band_ret[b].gdq[g][r - Bands[b][1]][c]
                from_below == IF b > 1 /\ r = Bands[b][1]
                              THEN band_ret[b - 1].row_above_gdq[g][c] ELSE 0
                from_above == IF b < Len(Bands) /\ r = Bands[b][2] - 1
                              THEN band_ret[b + 1].row_below_gdq[g][c] ELSE 0
            IN  bitwise_or(bitwise_or(own, from_below), from_above)]]]
    /\ pc' = "joined"
    /\ UNCHANGED <<settings, inputs, call, result, ret, ret2, band_ret, med_1d, med_3d>>

\* calc_med_first_diffs on the 3-D array
Med3D ==
    /\ pc = "med"
    /\ med_3d' = calc_med_first_diffs_3d(med_in)
    /\ pc' = "med3d"
    /\ UNCHANGED <<settings, inputs, call, result, ret, ret2, band_ret, joined, med_1d>>

\* calc_med_first_diffs on the 1-D array of one pixel
Med1D(c) ==
    /\ pc = "med3d"
    /\ c \notin DOMAIN med_1d
    /\ med_1d' = med_1d @@ (c :> calc_med_first_diffs_1d(Pix(med_in, 0, c)))
    /\ UNCHANGED <<settings, inputs, call, result, pc, ret, ret2, band_ret, joined, med_3d>>

(***************************************************************************)
(* Ramp fitting utilities.  An image section is one row of pixels, and an  *)
(* array over it is indexed by the pixel's column.                         *)
(***************************************************************************)
find_crs_state == <<settings, inputs, ret, ret2, band_ret, joined, med_1d, med_3d>>

\* the pixels of the image sections the utilities are applied to
RampPix == 0..1

\* a.sum(axis=0), a[0] + ... + a[n - 1], at pixel p
RECURSIVE sum_axis0(_, _, _)
sum_axis0(a, n, p) == IF n = 0 THEN 0 ELSE a[n - 1][p] + sum_axis0(a, n - 1, p)

(***************************************************************************)
(* remove_bad_singles.                                                     *)
(***************************************************************************)
\* len(np.where((segs_beg_3 == 1) & (segs_beg_3.sum(axis=0) > 1))[0])
tot_num_single_grp_ramps(segs_beg_3) ==
    Cardinality({sp \in (DOMAIN segs_beg_3) \X (DOMAIN segs_beg_3[0]) :
        /\ segs_beg_3[sp[1]][sp[2]] = 1
        /\ sum_axis0(segs_beg_3, Cardinality(DOMAIN segs_beg_3), sp[2]) > 1})

\* single-group segments compared with the later segments only
wh_single_later(segs_beg_3, ii_0, ii_1) ==
    {p \in DOMAIN segs_beg_3[0] :
        ii_1 > ii_0 /\ segs_beg_3[ii_0][p] = 1 /\ segs_beg_3[ii_1][p] > 0}

\* np.where((slice_0 == 1) & (slice_1 > 0)): the ramps with a single-group
\* segment ii_0 and another segment ii_1, earlier or later
wh_single(segs_beg_3, ii_0, ii_1) ==
    {p \in DOMAIN segs_beg_3[0] : segs_beg_3[ii_0][p] = 1 /\ segs_beg_3[ii_1][p] > 0}

\* segs_beg_3[ii_0:-1, wh] = segs_beg_3[ii_0 + 1:, wh]; segs_beg_3[-1, wh] = 0
shift_left(segs_beg_3, ii_0, wh) ==
    LET max_seg == Cardinality(DOMAIN segs_beg_3) IN
    Array([s \in DOMAIN segs_beg_3 |-> Array([p \in DOMAIN segs_beg_3[s] |->
        IF p \notin wh \/ s < ii_0 THEN segs_beg_3[s][p]
        ELSE IF s = max_seg - 1 THEN 0
        ELSE segs_beg_3[s + 1][p]])])

\* the two for loops over (ii_0, ii_1), from pair number k on; the slices are
\* views, so each pair sees what the pairs before it left
RECURSIVE for_segment_pairs(_, _)
for_segment_pairs(segs_beg_3, k) ==
    LET max_seg == Cardinality(DOMAIN segs_beg_3)
        ii_0 == k \div max_seg
        ii_1 == k % max_seg
    IN  IF k = max_seg * max_seg THEN segs_beg_3
        ELSE IF ii_0 = ii_1 \/ wh_single(segs_beg_3, ii_0, ii_1) = {}
        THEN for_segment_pairs(segs_beg_3, k + 1)
        ELSE for_segment_pairs(
                shift_left(segs_beg_3, ii_0, wh_single(segs_beg_3, ii_0, ii_1)), k + 1)

\* the while loop: it is deterministic, so it runs forever exactly when a pass
\* leaves an array it was already entered with
RECURSIVE while_singles(_, _, _)
while_singles(segs_beg_3, seen, passes) ==
    IF tot_num_single_grp_ramps(segs_beg_3) = 0
    THEN [returns |-> TRUE, segs_beg_3 |-> segs_beg_3, passes |-> passes]
    ELSE IF segs_beg_3 \in seen
    THEN [returns |-> FALSE, segs_beg_3 |-> segs_beg_3, passes |-> passes]
    ELSE while_singles(for_segment_pairs(segs_beg_3, 0), seen \cup {segs_beg_3},
                       passes + 1)

remove_bad_singles(segs_beg_3) == while_singles(segs_beg_3, {}, 0)

\* the arrays of segment lengths remove_bad_singles is given: every array for
\* one ramp, beside a ramp of no segment, of single groups only, or of both kinds
MaxSeg == 3
SegLens == 0..3
Companions ==
    { [s \in 0..(MaxSeg - 1) |-> 0],
      [s \in 0..(MaxSeg - 1) |-> 1],
      [s \in 0..(MaxSeg - 1) |-> IF s = 0 THEN 1 ELSE IF s = 1 THEN 2 ELSE 0] }

\* no call of find_crs or calc_med_first_diffs
NoJump ==
    /\ dataa = None
    /\ group_dq = None
    /\ read_noise = None
    /\ med_in = None
    /\ normal_rej_thresh = 0
    /\ three_diff_rej_thresh = 0
    /\ two_diff_rej_thresh = 0
    /\ min_jump_to_flag_neighbors = 0
    /\ max_jump_to_flag_neighbors = 0
    /\ nframes = 1
    /\ flag_4_neighbors = FALSE
    /\ JUMP_DET = Min(JumpDets)
    /\ split = 0
    /\ ret = None
    /\ ret2 = None
    /\ band_ret = None
    /\ joined = None
    /\ med_1d = None
    /\ med_3d = None
    /\ pc = "call"
    /\ result = None

InitSingles ==
    /\ \E a \in [0..(MaxSeg - 1) -> SegLens], b \in Companions :
        call = [fn |-> "remove_bad_singles",
                segs_beg_3 |-> [s \in 0..(MaxSeg - 1) |-> [p \in RampPix |->
                                    IF p = 0 THEN a[s] ELSE b[s]]]]
    /\ NoJump

RunRemoveBadSingles ==
    /\ pc = "call"
    /\ call.fn = "remove_bad_singles"
    /\ result' = remove_bad_singles(call.segs_beg_3)
    /\ pc' = "returned"
    /\ UNCHANGED <<find_crs_state, call>>

(***************************************************************************)
(* calc_slope_vars.  A quotient is held as <<numerator, denominator>>.     *)
(***************************************************************************)
\* gdq_2d_nan: the group DQ as float32, NaN where SATURATED is set
gdq_2d_nan_of(gdq_sect) ==
    Array([g \in DOMAIN gdq_sect |-> Array([p \in DOMAIN gdq_sect[g] |->
        IF bitwise_and(gdq_sect[g][p], SATURATED) # 0 THEN NaN
        ELSE Fin(gdq_sect[g][p])])])

\* an np.int32 as <<sign bit, low 31 bits>>
int32(v) == <<0, v>>

\* what .astype(np.int32) can make of NaN: the cast is undefined, and the builds
\* give -2^31 or 0
NanCasts == {<<1, 0>>, <<0, 0>>}

\* a group counted as good whenever it is not saturated
good_group_not_nan(v) == ~isnan(v)

\* gdq_1d == 0: a good group
good_group(v) == v = Fin(0)

\* no group taken for the start of a segment
cr_group_none(v, flags_jump_det, nan_cast) == FALSE

\* gdq_2d_nan[i_read, :].astype(np.int32) & ramp_data.flags_jump_det > 0
cr_group(v, flags_jump_det, nan_cast) ==
    bitwise_and((IF isnan(v) THEN nan_cast ELSE int32(v[1]))[2], flags_jump_det) > 0

\* one pass of the loop over reads: st is segs, sr_index, pix_not_done and, for
\* each read, the number of times it was added to a segment length
read_step(gdq_2d_nan, st, i_read, nreads, flags_jump_det, nan_cast) ==
    LET row == gdq_2d_nan[i_read]
        wh_good == {p \in DOMAIN row : good_group(row[p])}
        wh_cr == {p \in DOMAIN row :
                    cr_group(row[p], flags_jump_det, nan_cast) /\ i_read < nreads - 1}
        sr_index == Array([p \in DOMAIN row |->
                        IF p \in wh_cr THEN uint8(st.sr_index[p] + 1)
                        ELSE st.sr_index[p]])
    IN  [segs |-> Array([s \in DOMAIN st.segs |-> Array([p \in DOMAIN row |->
                    st.segs[s][p]
                    + (IF p \in wh_good /\ s = st.sr_index[p] THEN 1 ELSE 0)
                    + (IF p \in wh_cr /\ s = sr_index[p] THEN 1 ELSE 0)])]),
         sr_index |-> sr_index,
         pix_not_done |-> Array([p \in DOMAIN row |->
                            st.pix_not_done[p] /\ ~isnan(row[p])]),
         counted |-> Array([g \in DOMAIN st.counted |-> Array([p \in DOMAIN row |->
                        IF g # i_read THEN st.counted[g][p]
                        ELSE (IF p \in wh_good THEN 1 ELSE 0)
                             + (IF p \in wh_cr THEN 1 ELSE 0)])])]

\* while (i_read < nreads and np.any(pix_not_done))
RECURSIVE read_loop(_, _, _, _, _, _)
read_loop(gdq_2d_nan, st, i_read, nreads, flags_jump_det, nan_cast) ==
    IF i_read < nreads /\ \E p \in DOMAIN st.pix_not_done : st.pix_not_done[p]
    THEN read_loop(gdq_2d_nan,
                   read_step(gdq_2d_nan, st, i_read, nreads, flags_jump_det, nan_cast),
                   i_read + 1, nreads, flags_jump_det, nan_cast)
    ELSE st

\* segs_beg_3_m1[segs_beg_3_m1 < 1] = 1 left out
floor_1_none(m) == m

\* segs_beg_3_m1[segs_beg_3_m1 < 1] = 1
floor_1(m) == IF m < 1 THEN 1 ELSE m

calc_slope_vars(rn_sect, gain_sect, gdq_sect, group_time, max_seg, flags_jump_det, nan_cast) ==
    LET nreads == Cardinality(DOMAIN gdq_sect)
        pix == DOMAIN gdq_sect[0]
        st == read_loop(gdq_2d_nan_of(gdq_sect),
                        [segs |-> [s \in 0..(nreads - 1) |-> [p \in pix |-> 0]],
                         sr_index |-> [p \in pix |-> 0],
                         pix_not_done |-> [p \in pix |-> TRUE],
                         counted |-> [g \in 0..(nreads - 1) |-> [p \in pix |-> 0]]],
                        0, nreads, flags_jump_det, nan_cast)
        segs == Array([s \in 0..(nreads - 1) |-> Array([p \in pix |->
                    uint8(st.segs[s][p])])])
        segs_beg == Array([s \in 0..(max_seg - 1) |-> segs[s]])
        removed == remove_bad_singles(segs_beg)
        segs_beg_3 == removed.segs_beg_3
        segs_beg_3_m1 == Array([s \in DOMAIN segs_beg_3 |-> Array([p \in pix |->
                            floor_1(IF segs_beg_3[s][p] > 1 THEN segs_beg_3[s][p] - 1
                                    ELSE segs_beg_3[s][p])])])
    IN  [returns |-> removed.returns,
         segs |-> segs,
         counted |-> st.counted,
         segs_beg_3 |-> segs_beg_3,
         den_p3 |-> Array([s \in DOMAIN segs_beg_3 |-> Array([p \in pix |->
                        <<1, group_time * gain_sect[p] * segs_beg_3_m1[s][p]>>])]),
         num_r3 |-> Array([s \in DOMAIN segs_beg_3 |-> Array([p \in pix |->
                        <<12 * rn_sect[p] * rn_sect[p], group_time * group_time>>])]),
         den_r3 |-> Array([s \in DOMAIN segs_beg_3 |-> Array([p \in pix |->
                        IF segs_beg_3[s][p] > 1
                        THEN <<1, segs_beg_3[s][p] * segs_beg_3[s][p] * segs_beg_3[s][p]
                                  - segs_beg_3[s][p]>>
                        ELSE <<1, 6>>])])]

\* the group DQ sections calc_slope_vars is given: every ramp of SegGroups words
\* beside a ramp that is clean or saturated from its first group
SegGroups == 4
GdqWords == {0, DO_NOT_USE, SATURATED, Min(JumpDets)}
GdqCompanions ==
    { [g \in 0..(SegGroups - 1) |-> 0],
      [g \in 0..(SegGroups - 1) |-> SATURATED] }
MaxSegs == {2, SegGroups}
Gains == <<2, 1>>
Noises == <<3, 1>>
GroupTimes == {2}

InitSlopeVars ==
    /\ \E a \in [0..(SegGroups - 1) -> GdqWords], b \in GdqCompanions,
          n \in MaxSegs, t \in GroupTimes :
        call = [fn |-> "calc_slope_vars",
                gdq_sect |-> [g \in 0..(SegGroups - 1) |-> [p \in RampPix |->
                                IF p = 0 THEN a[g] ELSE b[g]]],
                rn_sect |-> [p \in RampPix |-> Noises[p + 1]],
                gain_sect |-> [p \in RampPix |-> Gains[p + 1]],
                group_time |-> t,
                max_seg |-> n]
    /\ NoJump

RunCalcSlopeVars ==
    /\ pc = "call"
    /\ call.fn = "calc_slope_vars"
    /\ \E nan_cast \in NanCasts :
        result' = calc_slope_vars(call.rn_sect, call.gain_sect, call.gdq_sect,
                                  call.group_time, call.max_seg, JUMP_DET, nan_cast)
    /\ pc' = "returned"
    /\ UNCHANGED <<find_crs_state, call>>

(***************************************************************************)
(* dq_compress_final.                                                      *)
(***************************************************************************)
\* np.uint32(~dnu_flag), the complement of the flag in 32 bits, as its high and
\* low 16 bits; the conversion of the negative Python integer wraps
uint32_invert(flag) == <<65535 - (flag \div 65536), 65535 - (flag % 65536)>>

\* np.bitwise_and of a word and a 32-bit mask held as two halves
bitwise_and_halves(word, mask) ==
    65536 * bitwise_and(word \div 65536, mask[1]) + bitwise_and(word % 65536, mask[2])

\* for jj in range(1, n_int): f_dq = np.bitwise_or(f_dq, dq_int[jj, :, :])
RECURSIVE or_integrations(_, _, _)
or_integrations(dq_int, n, p) ==
    IF n = 1 THEN dq_int[0][p]
    ELSE bitwise_or(or_integrations(dq_int, n - 1, p), dq_int[n - 1][p])

\* the pixels with DO_NOT_USE set in no integration
not_dnu_unset(dnu_sum, nints) == {p \in DOMAIN dnu_sum : dnu_sum[p] = 0}

\* np.where(dnu_sum < nints)
not_dnu_of(dnu_sum, nints) == {p \in DOMAIN dnu_sum : dnu_sum[p] < nints}

\* f_dq is a view of dq_int[0] when the loop over jj is empty, and then the
\* last assignment writes into the cube; dq_int is the cube after the call
dq_compress_final(dq_int, n_int, dnu_flag) ==
    LET nints == Cardinality(DOMAIN dq_int)
        pix == DOMAIN dq_int[0]
        dnu == Array([i \in DOMAIN dq_int |-> Array([p \in pix |->
                    IF bitwise_and(dq_int[i][p], dnu_flag) # 0 THEN 1 ELSE 0])])
        dnu_sum == Array([p \in pix |-> sum_axis0(dnu, nints, p)])
        not_dnu == not_dnu_of(dnu_sum, nints)
        not_dnu_flag == uint32_invert(dnu_flag)
        f_dq == Array([p \in pix |->
                    IF p \in not_dnu
                    THEN bitwise_and_halves(or_integrations(dq_int, n_int, p), not_dnu_flag)
                    ELSE or_integrations(dq_int, n_int, p)])
    IN  [f_dq |-> f_dq,
         dq_int |-> IF n_int = 1 THEN [dq_int EXCEPT ![0] = f_dq] ELSE dq_int]

\* the integration DQ cubes dq_compress_final is given
NInts == 2
PixWords == {0, DO_NOT_USE, SATURATED, DO_NOT_USE + Min(JumpDets)}

InitCompress ==
    /\ \E n \in 1..NInts :
        \E d \in [0..(n - 1) -> [RampPix -> PixWords]] :
            call = [fn |-> "dq_compress_final", dq_int |-> d, n_int |-> n,
                    dnu_flag |-> DO_NOT_USE]
    /\ NoJump

RunDqCompressFinal ==
    /\ pc = "call"
    /\ call.fn = "dq_compress_final"
    /\ result' = dq_compress_final(call.dq_int, call.n_int, call.dnu_flag)
    /\ pc' = "returned"
    /\ UNCHANGED <<find_crs_state, call>>

(***************************************************************************)
(* fix_sat_ramps.  A cube of an integration's results is indexed by the    *)
(* integration and the pixel.                                              *)
(***************************************************************************)
LARGE_VARIANCE == 100000000

\* the flag stored over the DQ word
add_do_not_use_only(word, flags_do_not_use) == flags_do_not_use

\* np.bitwise_or(dq_int[...], ramp_data.flags_do_not_use)
add_do_not_use(word, flags_do_not_use) == bitwise_or(word, flags_do_not_use)

\* cube[sat_0th_group_int > 0] = value
where_sat(sat_0th_group_int, cube, value) ==
    Array([i \in DOMAIN cube |-> Array([p \in DOMAIN cube[i] |->
        IF sat_0th_group_int[i][p] > 0 THEN value ELSE cube[i][p]])])

fix_sat_ramps(sat_0th_group_int, var_p3, var_both3, slope_int, dq_int, flags_do_not_use) ==
    [var_p3 |-> where_sat(sat_0th_group_int, var_p3, LARGE_VARIANCE),
     var_both3 |-> where_sat(sat_0th_group_int, var_both3, LARGE_VARIANCE),
     slope_int |-> where_sat(sat_0th_group_int, slope_int, 0),
     dq_int |-> Array([i \in DOMAIN dq_int |-> Array([p \in DOMAIN dq_int[i] |->
                    IF sat_0th_group_int[i][p] > 0
                    THEN add_do_not_use(dq_int[i][p], flags_do_not_use)
                    ELSE dq_int[i][p]])])]

\* the results of one integration fix_sat_ramps is called on: for each pixel
\* whether its first group is saturated, its slope, its variances (Poisson,
\* read noise, both) and its DQ word; var_r3 is the read noise variance cube of
\* the same integration, which is not an argument
FitSlopes == {0, 7}
FitVariances == {<<3, 2, 5>>, <<LARGE_VARIANCE, LARGE_VARIANCE, LARGE_VARIANCE>>,
                 <<3, LARGE_VARIANCE, LARGE_VARIANCE>>}
FitWords == {0, SATURATED}
FitPixels ==
    [sat_0th_group : {0, 1}, slope : FitSlopes, var : FitVariances, dq : FitWords]
FitCompanions ==
    { [sat_0th_group |-> 1, slope |-> 7, var |-> <<3, 2, 5>>, dq |-> SATURATED],
      [sat_0th_group |-> 0, slope |-> 7, var |-> <<3, 2, 5>>, dq |-> 0] }

InitFixSat ==
    /\ \E a \in FitPixels, b \in FitCompanions :
        LET pixel == [p \in RampPix |-> IF p = 0 THEN a ELSE b] IN
        call = [fn |-> "fix_sat_ramps",
                sat_0th_group_int |-> [i \in 0..0 |-> [p \in RampPix |->
                                            pixel[p].sat_0th_group]],
                var_p3 |-> [i \in 0..0 |-> [p \in RampPix |-> pixel[p].var[1]]],
                var_r3 |-> [i \in 0..0 |-> [p \in RampPix |-> pixel[p].var[2]]],
                var_both3 |-> [i \in 0..0 |-> [p \in RampPix |-> pixel[p].var[3]]],
                slope_int |-> [i \in 0..0 |-> [p \in RampPix |-> pixel[p].slope]],
                dq_int |-> [i \in 0..0 |-> [p \in RampPix |-> pixel[p].dq]]]
    /\ NoJump

\* the arrays are changed in place and returned; var_r3 is not passed
RunFixSatRamps ==
    /\ pc = "call"
    /\ call.fn = "fix_sat_ramps"
    /\ result' = [var_r3 |-> call.var_r3] @@
                 fix_sat_ramps(call.sat_0th_group_int, call.var_p3, call.var_both3,
                               call.slope_int, call.dq_int, DO_NOT_USE)
    /\ pc' = "returned"
    /\ UNCHANGED <<find_crs_state, call>>

(***************************************************************************)
(* reset_bad_gain.  A gain is NaN, Fin(v), or an infinity.                 *)
(***************************************************************************)
Inf(sign) == <<sign, "inf">>

isinf(x) == Len(x) = 2

\* gain < 0.
gain_lt_zero(x) ==
    IF isnan(x) THEN FALSE ELSE IF isinf(x) THEN x[1] < 0 ELSE x[1] < 0

\* gain <= 0. (a comparison with NaN is False)
gain_le_zero(x) ==
    IF isnan(x) THEN FALSE ELSE IF isinf(x) THEN x[1] < 0 ELSE x[1] <= 0

\* pdq[wh_g] = np.bitwise_or(pdq[wh_g], flags_no_gain_val), then the same with
\* flags_do_not_use
flag_no_gain(pdq, wh_g, flags_no_gain_val, flags_do_not_use) ==
    Array([p \in DOMAIN pdq |->
        IF p \in wh_g
        THEN bitwise_or(bitwise_or(pdq[p], flags_no_gain_val), flags_do_not_use)
        ELSE pdq[p]])

\* pdq is changed in place and returned
reset_bad_gain(pdq, gain, flags_no_gain_val, flags_do_not_use) ==
    LET le_zero == flag_no_gain(pdq, {p \in DOMAIN gain : gain_le_zero(gain[p])},
                                flags_no_gain_val, flags_do_not_use)
    IN  flag_no_gain(le_zero, {p \in DOMAIN gain : isnan(gain[p])},
                     flags_no_gain_val, flags_do_not_use)

\* the gains and pixel DQ words reset_bad_gain is given
GainVals == {NaN, Inf(-1), Inf(1), Fin(-2), Fin(0), Fin(3)}
PdqWords == {0, SATURATED, DO_NOT_USE, NO_GAIN_VALUE + DO_NOT_USE}
GainCompanions == {<<Fin(3), 0>>, <<NaN, SATURATED>>}

InitGain ==
    /\ \E g \in GainVals, w \in PdqWords, b \in GainCompanions :
        call = [fn |-> "reset_bad_gain",
                gain |-> [p \in RampPix |-> IF p = 0 THEN g ELSE b[1]],
                pdq |-> [p \in RampPix |-> IF p = 0 THEN w ELSE b[2]]]
    /\ NoJump

RunResetBadGain ==
    /\ pc = "call"
    /\ call.fn = "reset_bad_gain"
    /\ result' = [pdq |-> reset_bad_gain(call.pdq, call.gain, NO_GAIN_VALUE, DO_NOT_USE)]
    /\ pc' = "returned"
    /\ UNCHANGED <<find_crs_state, call>>

(***************************************************************************)
(* do_all_sat.  groupdq is indexed by integration, group and pixel.        *)
(***************************************************************************)
\* np.zeros((n_int,) + imshape)
zeros_3d(n_int, pix) == [i \in 0..(n_int - 1) |-> [p \in pix |-> 0]]

\* np.bitwise_or.reduce(groupdq[ii, :, :, :], axis=0), over the first n groups
RECURSIVE or_groups(_, _, _)
or_groups(groupdq_ii, n, p) ==
    IF n = 0 THEN 0 ELSE bitwise_or(or_groups(groupdq_ii, n - 1, p), groupdq_ii[n - 1][p])

\* integration-specific output whatever n_int is
has_integ_info_always(n_int) == n_int >= 1

\* if n_int > 1
has_integ_info(n_int) == n_int > 1

do_all_sat(pixeldq, groupdq, n_int, save_opt, flags_saturated, flags_do_not_use) ==
    LET pix == DOMAIN pixeldq
        zeros_2d == [p \in pix |-> 0]
        new_arr == [i \in 0..(n_int - 1) |-> [s \in 0..0 |-> zeros_2d]]
    IN  [image_info |->
            [data |-> zeros_2d,
             dq |-> Array([p \in pix |->
                        bitwise_or(bitwise_or(pixeldq[p], flags_saturated),
                                   flags_do_not_use)]),
             var_poisson |-> zeros_2d,
             var_rnoise |-> zeros_2d,
             err |-> zeros_2d],
         integ_info |->
            IF has_integ_info(n_int)
            THEN [data |-> zeros_3d(n_int, pix),
                  dq |-> Array([ii \in 0..(n_int - 1) |-> Array([p \in pix |->
                            bitwise_or(or_groups(groupdq[ii],
                                                 Cardinality(DOMAIN groupdq[ii]), p),
                                       flags_do_not_use)])]),
                  var_poisson |-> zeros_3d(n_int, pix),
                  var_rnoise |-> zeros_3d(n_int, pix),
                  int_times |-> None,
                  err |-> zeros_3d(n_int, pix)]
            ELSE None,
         opt_info |->
            IF save_opt
            THEN [slope |-> new_arr, sigslope |-> new_arr, var_poisson |-> new_arr,
                  var_rnoise |-> new_arr, yint |-> new_arr, sigyint |-> new_arr,
                  pedestal |-> zeros_3d(n_int, pix), weights |-> new_arr,
                  crmag |-> new_arr]
            ELSE None]

\* the all-saturated exposures do_all_sat is given: two groups an integration,
\* every group DQ word with SATURATED
SatWords == {SATURATED, SATURATED + Min(JumpDets), SATURATED + DO_NOT_USE}
SatPixelDq == {0, NO_GAIN_VALUE}

InitAllSat ==
    /\ \E n \in 1..NInts, w \in SatPixelDq, save_opt \in BOOLEAN :
        \E a \in [0..(n - 1) -> [0..1 -> SatWords]] :
            call = [fn |-> "do_all_sat",
                    pixeldq |-> [p \in RampPix |-> IF p = 0 THEN w ELSE 0],
                    groupdq |-> [i \in 0..(n - 1) |-> [g \in 0..1 |-> [p \in RampPix |->
                                    IF p = 0 THEN a[i][g] ELSE SATURATED]]],
                    n_int |-> n,
                    save_opt |-> save_opt]
    /\ NoJump

RunDoAllSat ==
    /\ pc = "call"
    /\ call.fn = "do_all_sat"
    /\ result' = do_all_sat(call.pixeldq, call.groupdq, call.n_int, call.save_opt,
                            SATURATED, DO_NOT_USE)
    /\ pc' = "returned"
    /\ UNCHANGED <<find_crs_state, call>>

(***************************************************************************)
(* alloc_arrays_2 and output_integ.                                        *)
(***************************************************************************)
\* np.zeros((n_int,) + imshape) + LARGE_VARIANCE
large_3d(n_int, pix) == [i \in 0..(n_int - 1) |-> [p \in pix |-> LARGE_VARIANCE]]

alloc_arrays_2(n_int, pix, max_seg) ==
    LET large_4d == [i \in 0..(n_int - 1) |-> [s \in 0..(max_seg - 1) |->
                        [p \in pix |-> LARGE_VARIANCE]]]
        zeros_4d == [i \in 0..(n_int - 1) |-> [s \in 0..(max_seg - 1) |->
                        [p \in pix |-> 0]]]
    IN  [var_p3 |-> large_3d(n_int, pix),
         var_r3 |-> large_3d(n_int, pix),
         var_p4 |-> large_4d,
         var_r4 |-> large_4d,
         var_both4 |-> large_4d,
         var_both3 |-> large_3d(n_int, pix),
         inv_var_both4 |-> zeros_4d,
         s_inv_var_p3 |-> zeros_3d(n_int, pix),
         s_inv_var_r3 |-> zeros_3d(n_int, pix),
         s_inv_var_both3 |-> zeros_3d(n_int, pix),
         segs_4 |-> zeros_4d]

\* only the variances above LARGE_VARIANCE are set to 0
zero_above_large(v) == IF v > LARGE_VARIANCE THEN 0 ELSE v

\* var[var > 0.4 * LARGE_VARIANCE] = 0.
zero_large(v) == IF 10 * v > 4 * LARGE_VARIANCE THEN 0 ELSE v

\* np.sqrt, not evaluated
sqrt(v) == <<"sqrt", v>>

\* data is the quotient <<slope, effintim>>
output_integ(slope_int, dq_int, effintim, var_p3, var_r3, var_both3, int_times) ==
    [data |-> Array([i \in DOMAIN slope_int |-> Array([p \in DOMAIN slope_int[i] |->
                <<slope_int[i][p], effintim>>])]),
     dq |-> dq_int,
     var_poisson |-> Array([i \in DOMAIN var_p3 |-> Array([p \in DOMAIN var_p3[i] |->
                        zero_large(var_p3[i][p])])]),
     var_rnoise |-> Array([i \in DOMAIN var_r3 |-> Array([p \in DOMAIN var_r3[i] |->
                        zero_large(var_r3[i][p])])]),
     int_times |-> int_times,
     err |-> Array([i \in DOMAIN var_both3 |-> Array([p \in DOMAIN var_both3[i] |->
                    sqrt(zero_large(var_both3[i][p]))])])]

\* what the fit of a ramp leaves in the cubes output_integ is given: slope, DQ
\* word and the three variances, which for a ramp with no segment to fit are
\* those alloc_arrays_2 made
SegmentCounts == {1, 2}
EffIntTimes == {2}
FitOutcomes ==
    [slope : FitSlopes, dq : {0, DO_NOT_USE},
     var : {<<>>, <<3, 2, 5>>, <<40000000, 40000000, 40000000>>,
            <<40000001, 2, 40000003>>}]
FitOutcomeCompanions ==
    { [slope |-> 7, dq |-> 0, var |-> <<3, 2, 5>>],
      [slope |-> 0, dq |-> DO_NOT_USE, var |-> <<>>] }

InitAlloc ==
    /\ \E n \in 1..NInts, max_seg \in SegmentCounts :
        call = [fn |-> "alloc_arrays_2", n_int |-> n, max_seg |-> max_seg]
    /\ NoJump

RunAllocArrays2 ==
    /\ pc = "call"
    /\ call.fn = "alloc_arrays_2"
    /\ result' = alloc_arrays_2(call.n_int, RampPix, call.max_seg)
    /\ pc' = "allocated"
    /\ UNCHANGED <<find_crs_state, call>>

\* output_integ on the cubes of alloc_arrays_2, the ramps of the first
\* integration fitted or not, those of the others not
RunOutputInteg ==
    /\ pc = "allocated"
    /\ \E a \in FitOutcomes, b \in FitOutcomeCompanions, effintim \in EffIntTimes :
        LET n_int == call.n_int
            fit == [i \in 0..(n_int - 1) |-> [p \in RampPix |->
                        IF i > 0 THEN [slope |-> 0, dq |-> DO_NOT_USE, var |-> <<>>]
                        ELSE IF p = 0 THEN a ELSE b]]
            cube(alloc, k) == [i \in 0..(n_int - 1) |-> [p \in RampPix |->
                                IF fit[i][p].var = <<>> THEN alloc[i][p]
                                ELSE fit[i][p].var[k]]]
            args == [fn |-> "output_integ",
                     no_segment |-> {ip \in (0..(n_int - 1)) \X RampPix :
                                        fit[ip[1]][ip[2]].var = <<>>},
                     slope_int |-> [i \in 0..(n_int - 1) |-> [p \in RampPix |->
                                        fit[i][p].slope]],
                     dq_int |-> [i \in 0..(n_int - 1) |-> [p \in RampPix |->
                                        fit[i][p].dq]],
                     effintim |-> effintim,
                     var_p3 |-> cube(result.var_p3, 1),
                     var_r3 |-> cube(result.var_r3, 2),
                     var_both3 |-> cube(result.var_both3, 3),
                     int_times |-> None]
        IN  /\ call' = args
            /\ result' = output_integ(args.slope_int, args.dq_int, args.effintim,
                                      args.var_p3, args.var_r3, args.var_both3,
                                      args.int_times)
    /\ pc' = "returned"
    /\ UNCHANGED find_crs_state

(***************************************************************************)
(* OptRes.shrink_crmag.  cr_mag_seg and dq_cube are indexed by             *)
(* integration, group and pixel.                                           *)
(***************************************************************************)
Max(S) == CHOOSE x \in S : \A y \in S : y <= x

\* the number of groups k < n of a ramp with test[k]
RECURSIVE count_before(_, _)
count_before(test, n) ==
    IF n = 0 THEN 0 ELSE count_before(test, n - 1) + (IF test[n - 1] THEN 1 ELSE 0)

\* the loop over k_rd for one pixel of cr_int_has_cr: cr_com[ii_int, :, y, x]
\* and end_cr[y, x] after it, raised when end_cr runs past the depth of cr_com
compress_ramp(cr_mag_ramp, nreads, max_cr) ==
    LET positive == [k \in 0..(nreads - 1) |-> cr_mag_ramp[k] > 0]
        end_cr == count_before(positive, nreads)
    IN  [cr_com |-> [d \in 0..(max_cr - 1) |->
                        IF d < end_cr
                        THEN cr_mag_ramp[CHOOSE k \in 0..(nreads - 1) :
                                positive[k] /\ count_before(positive, k) = d]
                        ELSE 0],
         end_cr |-> end_cr,
         raised |-> end_cr > max_cr]

shrink_crmag(cr_mag_seg, n_int, dq_cube, nreads, jump_det) ==
    LET pix == DOMAIN cr_mag_seg[0][0]
        ramp(cube, ii_int, p) == [k \in 0..(nreads - 1) |-> cube[ii_int][k][p]]
        max_cr == Max({count_before([k \in 0..(nreads - 1) |->
                            bitwise_and(jump_det, dq_cube[ii_int][k][p]) > 0], nreads) :
                        ii_int \in 0..(n_int - 1), p \in pix})
        has_cr(ii_int, p) == sum_axis0(cr_mag_seg[ii_int], nreads, p) # 0
        compressed == Array([ii_int \in 0..(n_int - 1) |-> Array([p \in pix |->
                        compress_ramp(ramp(cr_mag_seg, ii_int, p), nreads, max_cr)])])
        \* end_cr is made anew for each integration: after the loops it holds
        \* the counts of the last one
        end_cr == [p \in pix |-> IF has_cr(n_int - 1, p)
                                 THEN compressed[n_int - 1][p].end_cr ELSE 0]
        max_num_crs == Max({end_cr[p] : p \in pix})
    IN  IF \E ii_int \in 0..(n_int - 1), p \in pix :
                has_cr(ii_int, p) /\ compressed[ii_int][p].raised
        THEN [raised |-> TRUE, cr_mag_seg |-> cr_mag_seg]
        ELSE [raised |-> FALSE,
              cr_mag_seg |->
                IF max_num_crs = 0
                THEN [ii_int \in 0..(n_int - 1) |-> [d \in 0..0 |-> [p \in pix |-> 0]]]
                ELSE [ii_int \in 0..(n_int - 1) |-> [d \in 0..(max_num_crs - 1) |->
                        [p \in pix |-> IF has_cr(ii_int, p)
                                       THEN compressed[ii_int][p].cr_com[d] ELSE 0]]]]

\* the cosmic ray magnitudes shrink_crmag is given: ramps of CrReads groups
\* with no magnitude, one (3 or 7) or two (3 and 7, in either order), JUMP_DET
\* in the group DQ of the groups that have one
CrReads == 3
CrRamp(g, h) ==
    [k \in 0..(CrReads - 1) |-> IF k = g THEN 3 ELSE IF k = h THEN 7 ELSE 0]
CrRamps == {CrRamp(gh[1], gh[2]) :
                gh \in {x \in (0..CrReads) \X (0..CrReads) : x[1] # x[2] \/ x[1] = CrReads}}
CrCompanions == {CrRamp(CrReads, CrReads), CrRamp(CrReads, 0)}
CrInts == 0..1

InitCrMag ==
    /\ \E a \in [CrInts -> CrRamps], b \in CrCompanions :
        LET cr_mag_seg == [i \in CrInts |-> [k \in 0..(CrReads - 1) |-> [p \in RampPix |->
                                IF p = 0 THEN a[i][k] ELSE b[k]]]]
        IN  call = [fn |-> "shrink_crmag",
                    cr_mag_seg |-> cr_mag_seg,
                    n_int |-> Cardinality(CrInts),
                    dq_cube |-> [i \in CrInts |-> [k \in 0..(CrReads - 1) |->
                                    [p \in RampPix |->
                                        IF cr_mag_seg[i][k][p] > 0 THEN Min(JumpDets)
                                        ELSE 0]]],
                    nreads |-> CrReads]
    /\ NoJump

\* self.cr_mag_seg is replaced
RunShrinkCrmag ==
    /\ pc = "call"
    /\ call.fn = "shrink_crmag"
    /\ result' = shrink_crmag(call.cr_mag_seg, call.n_int, call.dq_cube, call.nreads,
                              JUMP_DET)
    /\ pc' = "returned"
    /\ UNCHANGED <<find_crs_state, call>>

(***************************************************************************)
(* OptRes.output_optional.  The segment arrays are indexed by integration, *)
(* segment and pixel; a weight and a slope are quotients.                  *)
(***************************************************************************)
\* the test with >= in place of >
large_fraction_or_equal(v) == 10 * v >= 4 * LARGE_VARIANCE

\* v > 0.4 * LARGE_VARIANCE
large_fraction(v) == 10 * v > 4 * LARGE_VARIANCE

\* 1. / w > 0.4 * LARGE_VARIANCE, for a weight w = <<n, d>> with n, d >= 0:
\* 1/0 is inf, and 0/0 is NaN, which compares False
inverse_large_fraction(w) ==
    IF w[1] = 0 THEN w[2] # 0 ELSE 10 * w[2] > 4 * LARGE_VARIANCE * w[1]

\* array[test] = 0.
zeroed_4d(array, test) ==
    Array([i \in DOMAIN array |-> Array([s \in DOMAIN array[i] |->
        Array([p \in DOMAIN array[i][s] |->
            IF test[i][s][p] THEN 0 ELSE array[i][s][p]])])])

\* the arrays of self after the call; opt_info is made of the same arrays
output_optional(self, effintim) ==
    [self EXCEPT
        !.var_p_seg = zeroed_4d(self.var_p_seg,
            [i \in DOMAIN self.var_p_seg |-> [s \in DOMAIN self.var_p_seg[i] |->
                [p \in DOMAIN self.var_p_seg[i][s] |->
                    large_fraction(self.var_p_seg[i][s][p])]]]),
        !.var_r_seg = zeroed_4d(self.var_r_seg,
            [i \in DOMAIN self.var_r_seg |-> [s \in DOMAIN self.var_r_seg[i] |->
                [p \in DOMAIN self.var_r_seg[i][s] |->
                    large_fraction(self.var_r_seg[i][s][p])]]]),
        !.weights = Array([i \in DOMAIN self.weights |-> Array([s \in DOMAIN self.weights[i] |->
            Array([p \in DOMAIN self.weights[i][s] |->
                IF inverse_large_fraction(self.weights[i][s][p]) THEN <<0, 1>>
                ELSE self.weights[i][s][p]])])]),
        !.slope_seg = Array([i \in DOMAIN self.slope_seg |-> Array([s \in DOMAIN self.slope_seg[i] |->
            Array([p \in DOMAIN self.slope_seg[i][s] |->
                <<self.slope_seg[i][s][p][1], self.slope_seg[i][s][p][2] * effintim>>])])])]

\* the segment arrays output_optional finds in self: one integration of two
\* segments, the first segment of the first pixel with every pair of variances
SegVariances == {0, 3, 40000000, 40000001, LARGE_VARIANCE}

InitOptional ==
    /\ \E vp \in SegVariances, vr \in SegVariances, w \in {<<0, 1>>, <<1, 2>>, <<1, 50000000>>}, effintim \in EffIntTimes :
        LET first(p, s) == p = 0 /\ s = 0
            seg(a, b, c) == [i \in 0..0 |-> [s \in 0..1 |-> [p \in RampPix |->
                                IF first(p, s) THEN a ELSE IF s = 0 THEN b ELSE c]]]
        IN  call = [fn |-> "output_optional",
                    self |-> [var_p_seg |-> seg(vp, 3, LARGE_VARIANCE),
                              var_r_seg |-> seg(vr, 2, LARGE_VARIANCE),
                              weights |-> seg(w, <<1, 2>>, <<0, 1>>),
                              slope_seg |-> seg(<<7, 1>>, <<7, 1>>, <<0, 1>>)],
                    effintim |-> effintim]
    /\ NoJump

RunOutputOptional ==
    /\ pc = "call"
    /\ call.fn = "output_optional"
    /\ result' = output_optional(call.self, call.effintim)
    /\ pc' = "returned"
    /\ UNCHANGED <<find_crs_state, call>>

(***************************************************************************)
(* ramp_fit_data.  A 2-D array is a function of row and column, from 0.  A *)
(* read noise is <<n, d, q>>, the value n / (d * sqrt(q)); a gain is an    *)
(* integer.  ols_fit.ols_ramp_fit_multi is called with the arrays the      *)
(* caller passed, and what it is called with is recorded.                  *)
(***************************************************************************)
shape_2d(a) == <<Cardinality(DOMAIN a), Cardinality(DOMAIN a[0])>>

\* algorithm.upper()
upper(algorithm) ==
    CASE algorithm = "gls" -> "GLS"
      [] algorithm = "ols" -> "OLS"
      [] OTHER -> algorithm

\* numpy can broadcast an array of shape from to the shape to
broadcasts(from, to) == \A d \in 1..2 : from[d] = to[d] \/ from[d] = 1

\* a[r, c] of an array broadcast to a larger shape
broadcast_at(a, r, c) ==
    a[IF shape_2d(a)[1] = 1 THEN 0 ELSE r][IF shape_2d(a)[2] = 1 THEN 0 ELSE c]

\* readnoise_2d *= gain_2d / np.sqrt(2. * nframes), in the caller's array
times_in_place(readnoise_2d, gain_2d, n_frames) ==
    Array([r \in DOMAIN readnoise_2d |-> Array([c \in DOMAIN readnoise_2d[r] |->
        <<readnoise_2d[r][c][1] * broadcast_at(gain_2d, r, c),
          readnoise_2d[r][c][2],
          readnoise_2d[r][c][3] * 2 * n_frames>>])])

\* raised: the exception the call ends with, "" for none; readnoise_2d and
\* gain_2d: the caller's arrays after the call; ols_args: the read noise
\* ols_ramp_fit_multi was called with, None when it was not called
ramp_fit_data(ramp_data, readnoise_2d, gain_2d, algorithm) ==
    IF upper(algorithm) = "GLS"
    THEN [raised |-> "", readnoise_2d |-> readnoise_2d, gain_2d |-> gain_2d,
          ols_args |-> None]
    ELSE IF ~broadcasts(shape_2d(gain_2d), shape_2d(readnoise_2d))
    THEN [raised |-> "ValueError", readnoise_2d |-> readnoise_2d, gain_2d |-> gain_2d,
          ols_args |-> None]
    ELSE LET scaled == times_in_place(readnoise_2d, gain_2d, ramp_data.nframes)
         IN  [raised |-> "", readnoise_2d |-> scaled, gain_2d |-> gain_2d,
              ols_args |-> scaled]

\* ramps of one row and two columns; the gain has the shape of the data, one
\* column, or three columns, the read noise the shape of the data or one column
Algorithms == {"OLS", "GLS", "gls"}
FitNoises == {<<0, 1, 1>>, <<3, 1, 1>>}
Row(cols, v, w) == [r \in 0..0 |-> [c \in 0..(cols - 1) |-> IF c = 0 THEN v ELSE w]]

InitRampFit ==
    /\ \E algorithm \in Algorithms, nf \in {1, 2}, g \in {1, 2}, n \in FitNoises :
       \E gcols \in 1..3, ncols \in 1..2 :
        call = [fn |-> "ramp_fit_data",
                ramp_data |-> [nframes |-> nf, shape |-> <<1, 2, 1, 2>>],
                readnoise_2d |-> Row(ncols, n, <<3, 1, 1>>),
                gain_2d |-> Row(gcols, g, 1),
                algorithm |-> algorithm]
    /\ NoJump

\* the first call, and a second one with the same arrays
RunRampFitData ==
    /\ pc = "call"
    /\ call.fn = "ramp_fit_data"
    /\ result' = [last |-> ramp_fit_data(call.ramp_data, call.readnoise_2d,
                                         call.gain_2d, call.algorithm),
                  first |-> None]
    /\ pc' = "returned"
    /\ UNCHANGED <<find_crs_state, call>>

RunRampFitDataAgain ==
    /\ pc = "returned"
    /\ call.fn = "ramp_fit_data"
    /\ result.first = None
    /\ result.last.raised = ""
    /\ result' = [last |-> ramp_fit_data(call.ramp_data, result.last.readnoise_2d,
                                         result.last.gain_2d, call.algorithm),
                  first |-> result.last]
    /\ UNCHANGED <<find_crs_state, call, pc>>

(***************************************************************************)
(* find_crs followed by calc_slope_vars on the group DQ it returned: ramps *)
(* of seven groups that rise by 10 a group, but by a and b into groups 3   *)
(* and 5.                                                                  *)
(***************************************************************************)
JumpSizes == {10, 100, 110}
ExampleRamp(a, b) ==
    [g \in 0..6 |-> 10 + RampOf([i \in 0..5 |-> <<10, 10, a, 10, b, 10>>[i + 1]])[g]]

InitExample ==
    /\ normal_rej_thresh = 4
    /\ three_diff_rej_thresh = 4
    /\ two_diff_rej_thresh = 4
    /\ \E j \in JumpRanges :
        /\ min_jump_to_flag_neighbors = j[1]
        /\ max_jump_to_flag_neighbors = j[2]
    /\ nframes = 1
    /\ JUMP_DET = Min(JumpDets)
    /\ flag_4_neighbors = FALSE
    /\ \E a \in JumpSizes, b \in JumpSizes :
        dataa = [g \in 0..6 |-> [r \in 0..0 |-> [c \in 0..0 |-> ExampleRamp(a, b)[g]]]]
    /\ group_dq = [g \in 0..6 |-> [r \in 0..0 |-> [c \in 0..0 |-> 0]]]
    /\ read_noise = [r \in 0..0 |-> [c \in 0..0 |-> 1]]
    /\ split = 0
    /\ med_in = None
    /\ pc = "start"
    /\ ret = None
    /\ ret2 = None
    /\ band_ret = None
    /\ joined = None
    /\ med_1d = None
    /\ med_3d = None
    /\ \E n \in {3, 4}, t \in GroupTimes :
        call = [fn |-> "calc_slope_vars of find_crs",
                rn_sect |-> [p \in 0..0 |-> 1],
                gain_sect |-> [p \in 0..0 |-> 1],
                group_time |-> t,
                max_seg |-> n]
    /\ result = None

\* calc_slope_vars on the section of the group DQ find_crs returned
RunSlopeVarsOfJumps ==
    /\ pc = "whole"
    /\ DOMAIN call # {}
    /\ ~ret.raised
    /\ \E nan_cast \in NanCasts :
        result' = calc_slope_vars(call.rn_sect, call.gain_sect,
                                  [g \in DOMAIN ret.gdq |-> [p \in 0..0 |-> ret.gdq[g][0][p]]],
                                  call.group_time, call.max_seg, JUMP_DET, nan_cast)
    /\ pc' = "returned"
    /\ UNCHANGED <<settings, inputs, call, ret, ret2, band_ret, joined, med_1d, med_3d>>

(***************************************************************************)
(* What the claims speak of.                                               *)
(***************************************************************************)
\* find_crs has been called on the whole cube; it has been called a second time
WholeDone == pc \in {"whole", "again", "joined"}

AgainDone == pc \in {"again", "joined"} /\ ~ret.raised

Samples(a) == (DOMAIN a) \X Rows(a) \X Cols(a)

\* the DQ word w has the JUMP_DET bit
HasJump(w) == (w \div JUMP_DET) % 2 = 1

\* word b is word a, or word a with the JUMP_DET bit added
SameOrJumpAdded(a, b) == b = a \/ (~HasJump(a) /\ b = a + JUMP_DET)

\* C1: find_crs never clears a DQ bit and adds nothing but JUMP_DET: every word
\* of the group DQ it returns is the input word or the input word with JUMP_DET
\* added, on the first call and on a call on its own output.
C1_OnlyJumpDetAdded ==
    /\ WholeDone /\ ~ret.raised =>
        \A t \in Samples(group_dq) :
            SameOrJumpAdded(group_dq[t[1]][t[2]][t[3]], ret.gdq[t[1]][t[2]][t[3]])
    /\ AgainDone /\ ~ret2.raised =>
        \A t \in Samples(group_dq) :
            SameOrJumpAdded(ret.gdq[t[1]][t[2]][t[3]], ret2.gdq[t[1]][t[2]][t[3]])

\* C1's case: a word that had other bits and no JUMP_DET comes back with JUMP_DET
\* added and the other bits kept
C1_Witness ==
    /\ WholeDone
    /\ ~ret.raised
    /\ \E t \in Samples(group_dq) :
        /\ group_dq[t[1]][t[2]][t[3]] # 0
        /\ ~HasJump(group_dq[t[1]][t[2]][t[3]])
        /\ ret.gdq[t[1]][t[2]][t[3]] = group_dq[t[1]][t[2]][t[3]] + JUMP_DET

\* the finite entry of a pixel with the smaller absolute value (the first one
\* when both have the same)
SmallerAbs(pix) ==
    LET i == CHOOSE i \in Usable(pix) : \A j \in Usable(pix) :
                \/ Abs(pix[i][1]) < Abs(pix[j][1])
                \/ (Abs(pix[i][1]) = Abs(pix[j][1]) /\ i <= j)
    IN  pix[i][1]

\* C2: for a pixel with exactly 2 finite first differences calc_med_first_diffs
\* returns the finite entry, with its sign, of the smaller absolute value, in
\* the 1-D call and for every pixel of the 3-D call.
C2_TwoDiffsSmallerAbs ==
    pc = "med3d" =>
        \A c \in Cols(med_in) :
            Cardinality(Usable(Pix(med_in, 0, c))) = 2 =>
                /\ med_3d[0][c] = Fin(2 * SmallerAbs(Pix(med_in, 0, c)))
                /\ c \in DOMAIN med_1d =>
                        med_1d[c] = Fin(2 * SmallerAbs(Pix(med_in, 0, c)))

\* the entries of pix with index in S in increasing order, and their median
\* (doubled)
Rank(pix, S, i) ==
    Cardinality({j \in S : pix[j][1] < pix[i][1] \/ (pix[j][1] = pix[i][1] /\ j < i)})

Sorted(pix, S, k) == pix[CHOOSE i \in S : Rank(pix, S, i) = k][1]

DoubledMedian(pix, S) ==
    Sorted(pix, S, (Cardinality(S) - 1) \div 2) + Sorted(pix, S, Cardinality(S) \div 2)

\* the first occurrence of the largest absolute value
FirstLargestAbs(pix) ==
    CHOOSE i \in Usable(pix) :
        \A j \in Usable(pix) :
            Abs(pix[j][1]) < Abs(pix[i][1]) \/ (Abs(pix[j][1]) = Abs(pix[i][1]) /\ i <= j)

\* what C3 says calc_med_first_diffs returns for a pixel with 3 or more finite
\* first differences
ClippedMedian(pix) ==
    IF Cardinality(Usable(pix)) >= 4
    THEN Fin(DoubledMedian(pix, Usable(pix) \ {FirstLargestAbs(pix)}))
    ELSE Fin(DoubledMedian(pix, Usable(pix)))

ArrayOf(seq) == [i \in 0..(Len(seq) - 1) |-> Fin(seq[i + 1])]

OnePixel(pix) == [g \in DOMAIN pix |-> [r \in 0..0 |-> [c \in 0..0 |-> pix[g]]]]

\* C3: with k >= 4 finite first differences calc_med_first_diffs removes the
\* first occurrence of the largest absolute value and returns the median of the
\* other finite entries (2.5 for [1, 2, 3, 4, 100]); with k = 3 it returns the
\* median of the three (2 for [1, 2, 3]); the 1-D and the 3-D path agree.
C3_ClippedMedian ==
    /\ pc = "med3d" =>
        \A c \in Cols(med_in) :
            Cardinality(Usable(Pix(med_in, 0, c))) >= 3 =>
                /\ med_3d[0][c] = ClippedMedian(Pix(med_in, 0, c))
                /\ c \in DOMAIN med_1d => med_1d[c] = ClippedMedian(Pix(med_in, 0, c))
    /\ calc_med_first_diffs_1d(ArrayOf(<<1, 2, 3, 4, 100>>)) = Fin(5)
    /\ calc_med_first_diffs_3d(OnePixel(ArrayOf(<<1, 2, 3, 4, 100>>)))[0][0] = Fin(5)
    /\ calc_med_first_diffs_1d(ArrayOf(<<1, 2, 3>>)) = Fin(4)
    /\ calc_med_first_diffs_3d(OnePixel(ArrayOf(<<1, 2, 3>>)))[0][0] = Fin(4)

\* C3's case: both paths have run on a pixel with 4 finite entries whose largest
\* absolute value occurs twice, with different signs
C3_Witness ==
    /\ pc = "med3d"
    /\ 0 \in DOMAIN med_1d
    /\ Cardinality(Usable(Pix(med_in, 0, 0))) >= 4
    /\ \E i, j \in Usable(Pix(med_in, 0, 0)) :
        /\ i < j
        /\ med_in[i][0][0] = Fin(5)
        /\ med_in[j][0][0] = Fin(-5)

\* C4: find_crs never raises, whatever the cube, the group DQ and the read
\* noise: the call returns, and a pixel whose ratios are all NaN is not detected.
C4_NeverRaises ==
    WholeDone =>
        /\ ~ret.raised
        /\ \A p \in ret.all_crs : Usable(Pix(ret.ratio, p[1], p[2])) # {}

\* C5: a zero sigma suppresses flagging: a pixel whose sigma is zero in the
\* initial pass is not detected, and an iteration of the refinement loop whose
\* recomputed sigma is zero flags nothing.
C5_ZeroSigmaFlagsNothing ==
    WholeDone =>
        /\ \A p \in Rows(dataa) \X Cols(dataa) :
            (ret.median_diffs[p[1]][p[2]] = Fin(0) /\ read_noise[p[1]][p[2]] = 0)
                => p \notin ret.all_crs
        /\ \A p \in ret.all_crs :
            \A k \in 1..Len(ret.loops[p].iters) :
                ret.loops[p].iters[k].sigma = Fin(0) => ~ret.loops[p].iters[k].found

\* C6: find_crs is idempotent on the group DQ: called again on its own output,
\* with the same data and settings, it returns that group DQ unchanged, with
\* neighbour flagging disabled or enabled.
C6_Idempotent ==
    (AgainDone /\ ~ret2.raised) => ret2.gdq = ret.gdq

\* the lowest index attaining the largest ratio of a pixel
FirstMaxRatio(pr) ==
    CHOOSE i \in Usable(pr) :
        \A j \in Usable(pr) :
            \/ pr[j][1] * pr[i][2] < pr[i][1] * pr[j][2]
            \/ (pr[j][1] * pr[i][2] = pr[i][1] * pr[j][2] /\ i <= j)

\* C7: a flagged first difference i sets JUMP_DET on group i + 1 and not on
\* group i; the difference flagged first is the lowest-index one attaining the
\* largest ratio; so group 0 of a pixel has JUMP_DET in the output only if it
\* had it in the input.
C7_LaterGroupFlagged ==
    (WholeDone /\ ~ret.raised) =>
        /\ \A p \in ret.all_crs :
            /\ \A i \in DOMAIN ret.loops[p].pix_cr_mask :
                ~ret.loops[p].pix_cr_mask[i] => HasJump(ret.gdq[i + 1][p[1]][p[2]])
            /\ ~ret.loops[p].pix_cr_mask[FirstMaxRatio(Pix(ret.ratio, p[1], p[2]))]
        /\ \A t \in Samples(group_dq) :
            (t[1] >= 1 /\ HasJump(ret.gdq_det[t[1]][t[2]][t[3]])
                       /\ ~HasJump(group_dq[t[1]][t[2]][t[3]]))
                => (<<t[2], t[3]>> \in ret.all_crs
                        /\ ~ret.loops[<<t[2], t[3]>>].pix_cr_mask[t[1] - 1])
        /\ \A r \in Rows(group_dq), c \in Cols(group_dq) :
            HasJump(ret.gdq[0][r][c]) => HasJump(group_dq[0][r][c])

\* min_jump_to_flag_neighbors < ratio < max_jump_to_flag_neighbors
StrictlyInside(ratio) ==
    /\ ratio # NaN
    /\ ratio[1] > min_jump_to_flag_neighbors * min_jump_to_flag_neighbors * ratio[2]
    /\ ratio[1] < max_jump_to_flag_neighbors * max_jump_to_flag_neighbors * ratio[2]

\* the pixels of the image at distance 1 of (r, c) in a row or in a column
Orthogonal(a, r, c) ==
    {n \in Rows(a) \X Cols(a) : Abs(n[1] - r) + Abs(n[2] - c) = 1}

\* the jump at group g of pixel (r, c) has its neighbours flagged, as C8 has it
Qualifies(g, r, c) ==
    /\ g >= 1
    /\ HasJump(ret.gdq_det[g][r][c])
    /\ StrictlyInside(ret.ratio[g - 1][r][c])

\* C8: with flag_4_neighbors, the neighbours of a jump at (g, row, col) get
\* JUMP_DET at group g exactly when the initial ratio of first difference g - 1
\* of the pixel lies strictly between min_ and max_jump_to_flag_neighbors.
C8_NeighborsInRangeOnly ==
    (WholeDone /\ ~ret.raised /\ flag_4_neighbors) =>
        \A t \in Samples(group_dq) :
            /\ Qualifies(t[1], t[2], t[3]) =>
                \A n \in Orthogonal(group_dq, t[2], t[3]) :
                    HasJump(ret.gdq[t[1]][n[1]][n[2]])
            /\ (HasJump(ret.gdq[t[1]][t[2]][t[3]]) /\ ~HasJump(ret.gdq_det[t[1]][t[2]][t[3]])) =>
                \E n \in Orthogonal(group_dq, t[2], t[3]) : Qualifies(t[1], n[1], n[2])

LastRow == Cardinality(Rows(dataa)) - 1

\* C9: a neighbour outside the image is never wrapped around: the one at row
\* -1 is recorded as JUMP_DET in row_below_gdq[group, col], the one at row
\* nrows as JUMP_DET in row_above_gdq[group, col], and both arrays are zero
\* everywhere else.
C9_OffImageRows ==
    (WholeDone /\ ~ret.raised) =>
        \A g \in DOMAIN group_dq, c \in Cols(group_dq) :
            /\ ret.row_below_gdq[g][c] =
                (IF flag_4_neighbors /\ HasJump(ret.gdq_det[g][0][c])
                        /\ in_range(ret.ratio, g, 0, c)
                 THEN JUMP_DET ELSE 0)
            /\ ret.row_above_gdq[g][c] =
                (IF flag_4_neighbors /\ HasJump(ret.gdq_det[g][LastRow][c])
                        /\ in_range(ret.ratio, g, LastRow, c)
                 THEN JUMP_DET ELSE 0)

\* C10: running find_crs on each row band and OR-ing the row_above_gdq and
\* row_below_gdq of the adjacent bands into the boundary rows gives the group
\* DQ of a run on the whole image (here with a JUMP_DET that fits 8 bits).
C10_BandsAsWhole ==
    (pc = "joined" /\ ~ret.raised /\ JUMP_DET < 256) => joined = ret.gdq

\* the utility fn has been called and has returned
Returned(fn) == pc = "returned" /\ call.fn = fn

\* the segment lengths of ramp p, first to last
Ramp(segs_beg_3, p) ==
    [i \in 1..Cardinality(DOMAIN segs_beg_3) |-> segs_beg_3[i - 1][p]]

IsLong(n) == n > 1

IsSingle(n) == n = 1

\* C12: remove_bad_singles returns on every array of segment lengths, and in
\* what it returns no ramp has a single-group segment beside another segment,
\* every ramp keeps its segments of two or more groups, their lengths and
\* their order, and a ramp that had single-group segments only keeps exactly
\* one of them, a lone one included
C12_SinglesRemoved ==
    Returned("remove_bad_singles") =>
        /\ result.returns
        /\ \A p \in RampPix :
            LET before == Ramp(call.segs_beg_3, p)
                after == Ramp(result.segs_beg_3, p)
            IN  /\ \A i, j \in DOMAIN after :
                    i # j /\ after[i] = 1 => after[j] = 0
                /\ SelectSeq(after, IsLong) = SelectSeq(before, IsLong)
                /\ SelectSeq(before, IsLong) = <<>> /\ SelectSeq(before, IsSingle) # <<>>
                    => Len(SelectSeq(after, IsSingle)) = 1

\* one ramp of three single groups and one of two long segments around a
\* single group have been through the loop
C12_Witness ==
    /\ Returned("remove_bad_singles")
    /\ result.passes > 0
    /\ \E p, q \in RampPix :
        /\ \A s \in DOMAIN call.segs_beg_3 : call.segs_beg_3[s][p] = 1
        /\ Len(SelectSeq(Ramp(call.segs_beg_3, q), IsLong)) = 2
        /\ Len(SelectSeq(Ramp(call.segs_beg_3, q), IsSingle)) = 1

\* the group DQ words of ramp p, first group to last
GroupWords(gdq_sect, p) ==
    [i \in 1..Cardinality(DOMAIN gdq_sect) |-> gdq_sect[i - 1][p]]

UsableGroup(word) ==
    bitwise_and(word, SATURATED) = 0 /\ bitwise_and(word, DO_NOT_USE) = 0

\* the lengths of the maximal runs of consecutive usable groups of a ramp, a
\* group with JUMP_DET opening a new run: acc the runs closed before group i,
\* cur the length of the run open there
RECURSIVE RunLengths(_, _, _, _)
RunLengths(words, i, acc, cur) ==
    LET closed == IF cur > 0 THEN Append(acc, cur) ELSE acc IN
    IF i > Len(words) THEN closed
    ELSE IF ~UsableGroup(words[i]) THEN RunLengths(words, i + 1, closed, 0)
    ELSE IF bitwise_and(words[i], JUMP_DET) # 0 THEN RunLengths(words, i + 1, closed, 1)
    ELSE RunLengths(words, i + 1, acc, cur + 1)

IsSegment(n) == n > 0

\* C11: the segment lengths calc_slope_vars computes for a ramp, before the
\* single-group segments are removed, are the lengths of the maximal runs of
\* consecutive groups with neither SATURATED nor DO_NOT_USE, split before every
\* group with JUMP_DET
C11_SegmentsAreMaximalRuns ==
    Returned("calc_slope_vars") =>
        \A p \in RampPix :
            SelectSeq(Ramp(result.segs, p), IsSegment)
                = RunLengths(GroupWords(call.gdq_sect, p), 1, <<>>, 0)

\* C13: for every ramp the segment lengths calc_slope_vars returns sum to at
\* most the number of groups, and no group was added to more than one segment
\* length: the lengths before removal sum to the number of groups counted
C13_SegmentsWithinRamp ==
    Returned("calc_slope_vars") =>
        LET nreads == Cardinality(DOMAIN call.gdq_sect) IN
        \A p \in RampPix :
            /\ sum_axis0(result.segs_beg_3, call.max_seg, p) <= nreads
            /\ \A g \in DOMAIN result.counted : result.counted[g][p] <= 1
            /\ sum_axis0(result.segs, nreads, p) = sum_axis0(result.counted, nreads, p)
            /\ sum_axis0(result.segs_beg_3, call.max_seg, p)
                <= sum_axis0(result.segs, nreads, p)

\* a ramp with a jump inside it has every one of its groups in a segment
C13_Witness ==
    /\ Returned("calc_slope_vars")
    /\ \E p \in RampPix :
        /\ \E g \in DOMAIN call.gdq_sect : call.gdq_sect[g][p] = JUMP_DET
        /\ Len(SelectSeq(Ramp(result.segs_beg_3, p), IsLong)) = 2
        /\ sum_axis0(result.segs_beg_3, call.max_seg, p)
            = Cardinality(DOMAIN call.gdq_sect)

\* two quotients are the same number
SameQuotient(a, b) == a[2] # 0 /\ b[2] # 0 /\ a[1] * b[2] = b[1] * a[2]

\* C14: for every segment entry of length n calc_slope_vars returns
\* den_r3 = 1/(n^3 - n) when n >= 2 and 1/6 otherwise,
\* num_r3 = 12 (readnoise / group_time)^2 and
\* den_p3 = 1/(group_time * gain * max(1, n - 1))
C14_VarianceTerms ==
    Returned("calc_slope_vars") =>
        \A s \in DOMAIN result.segs_beg_3, p \in RampPix :
            LET n == result.segs_beg_3[s][p]
                ngroups_m1 == IF n - 1 > 1 THEN n - 1 ELSE 1
            IN  /\ SameQuotient(result.den_r3[s][p],
                        IF n >= 2 THEN <<1, n * (n * n - 1)>> ELSE <<1, 6>>)
                /\ SameQuotient(result.num_r3[s][p],
                        <<12 * call.rn_sect[p] * call.rn_sect[p],
                          call.group_time * call.group_time>>)
                /\ SameQuotient(result.den_p3[s][p],
                        <<1, call.group_time * call.gain_sect[p] * ngroups_m1>>)

\* segment entries of no group, of one group and of more than two groups have
\* been returned
C14_Witness ==
    /\ Returned("calc_slope_vars")
    /\ \A n \in {0, 1} :
        \E s \in DOMAIN result.segs_beg_3, p \in RampPix : result.segs_beg_3[s][p] = n
    /\ \E s \in DOMAIN result.segs_beg_3, p \in RampPix : result.segs_beg_3[s][p] > 2

\* the flag bits of the DQ words of the model
FlagBits == {DO_NOT_USE, SATURATED, JUMP_DET, NO_GAIN_VALUE}

HasFlag(word, flag) == bitwise_and(word, flag) # 0

SatFirst(i) == {p \in RampPix : call.sat_0th_group_int[i][p] > 0}

\* slope and DQ of the first-group-saturated pixels are reset, and every other
\* pixel's slope, variances and DQ are as they were
FixSatOther(i) ==
    /\ \A p \in SatFirst(i) :
        /\ result.slope_int[i][p] = 0
        /\ HasFlag(result.dq_int[i][p], DO_NOT_USE)
        /\ \A flag \in FlagBits \ {DO_NOT_USE} :
            HasFlag(result.dq_int[i][p], flag) <=> HasFlag(call.dq_int[i][p], flag)
    /\ \A p \in RampPix \ SatFirst(i) :
        /\ result.slope_int[i][p] = call.slope_int[i][p]
        /\ result.var_p3[i][p] = call.var_p3[i][p]
        /\ result.var_r3[i][p] = call.var_r3[i][p]
        /\ result.var_both3[i][p] = call.var_both3[i][p]
        /\ result.dq_int[i][p] = call.dq_int[i][p]

\* C16 as stated: fix_sat_ramps leaves every first-group-saturated pixel with
\* slope 0, Poisson variance and read noise variance LARGE_VARIANCE, and
\* DO_NOT_USE added to its DQ, and leaves every other pixel as it was
C16_ReadNoiseVarianceForced ==
    Returned("fix_sat_ramps") =>
        \A i \in DOMAIN call.dq_int :
            /\ FixSatOther(i)
            /\ \A p \in SatFirst(i) :
                /\ result.var_p3[i][p] = LARGE_VARIANCE
                /\ result.var_r3[i][p] = LARGE_VARIANCE

\* C16 as amended: fix_sat_ramps leaves every first-group-saturated pixel with
\* slope 0, Poisson variance and combined variance LARGE_VARIANCE, its read
\* noise variance as it was, and DO_NOT_USE added to its DQ, and leaves every
\* other pixel as it was
C16_CombinedVarianceForced ==
    Returned("fix_sat_ramps") =>
        \A i \in DOMAIN call.dq_int :
            /\ FixSatOther(i)
            /\ \A p \in SatFirst(i) :
                /\ result.var_p3[i][p] = LARGE_VARIANCE
                /\ result.var_both3[i][p] = LARGE_VARIANCE
                /\ result.var_r3[i][p] = call.var_r3[i][p]

\* a first-group-saturated pixel with a slope, finite variances and SATURATED
\* in its DQ, beside a pixel that is not
C16_Witness ==
    /\ Returned("fix_sat_ramps")
    /\ \E p, q \in RampPix :
        /\ p \in SatFirst(0)
        /\ call.slope_int[0][p] # 0
        /\ call.var_p3[0][p] # LARGE_VARIANCE
        /\ call.var_both3[0][p] # LARGE_VARIANCE
        /\ call.dq_int[0][p] = SATURATED
        /\ q \notin SatFirst(0)
        /\ call.slope_int[0][q] # 0

\* pixel p has NO_GAIN_VALUE and DO_NOT_USE in the returned pixel DQ and every
\* bit it had before
GainFlagged(p) ==
    /\ HasFlag(result.pdq[p], NO_GAIN_VALUE)
    /\ HasFlag(result.pdq[p], DO_NOT_USE)
    /\ \A flag \in FlagBits : HasFlag(call.pdq[p], flag) => HasFlag(result.pdq[p], flag)
    /\ \A flag \in FlagBits \ {NO_GAIN_VALUE, DO_NOT_USE} :
        HasFlag(result.pdq[p], flag) => HasFlag(call.pdq[p], flag)

FinitePositive(x) == ~isnan(x) /\ ~isinf(x) /\ x[1] > 0

\* C17 as stated: reset_bad_gain sets NO_GAIN_VALUE and DO_NOT_USE, keeping the
\* other bits, on every pixel whose gain is <= 0, NaN or infinite, and leaves
\* the DQ of the pixels with a finite positive gain unchanged
C17_InfiniteGainFlagged ==
    Returned("reset_bad_gain") =>
        \A p \in RampPix :
            IF FinitePositive(call.gain[p])
            THEN result.pdq[p] = call.pdq[p]
            ELSE GainFlagged(p)

\* C17 as amended: reset_bad_gain sets NO_GAIN_VALUE and DO_NOT_USE, keeping the
\* other bits, on every pixel whose gain is <= 0 (minus infinity included) or
\* NaN, and leaves the DQ of the pixels with a positive gain, finite or plus
\* infinity, unchanged
C17_NonPositiveOrNanGainFlagged ==
    Returned("reset_bad_gain") =>
        \A p \in RampPix :
            IF FinitePositive(call.gain[p]) \/ call.gain[p] = Inf(1)
            THEN result.pdq[p] = call.pdq[p]
            ELSE GainFlagged(p)

\* a pixel of gain 0 with SATURATED in its DQ beside a pixel of gain NaN
C17_Witness ==
    /\ Returned("reset_bad_gain")
    /\ \E p, q \in RampPix :
        /\ call.gain[p] = Fin(0)
        /\ call.pdq[p] = SATURATED
        /\ result.pdq[p] = SATURATED + NO_GAIN_VALUE + DO_NOT_USE
        /\ isnan(call.gain[q])

\* every value of the arrays named is 0 at pixel p: 2-D arrays of info, and
\* 3-D arrays of info at integration i
AllZero2(info, names, p) == \A k \in names : info[k][p] = 0

AllZero3(info, names, i, p) == \A k \in names : info[k][i][p] = 0

\* C18: on an exposure with every group saturated do_all_sat returns
\* exposure-level data, variances and err all 0 and each pixel's DQ equal to
\* its input pixel DQ with SATURATED and DO_NOT_USE added; with n_int > 1
\* integration-level data, variances and err all 0 and each integration DQ the
\* OR over the groups of the integration's group DQ with DO_NOT_USE added, and
\* with n_int = 1 no integ_info; opt_info exactly when save_opt is set
C18_AllSaturated ==
    Returned("do_all_sat") =>
        /\ \A p \in RampPix :
            /\ AllZero2(result.image_info, {"data", "var_poisson", "var_rnoise", "err"}, p)
            /\ \A flag \in FlagBits :
                HasFlag(result.image_info.dq[p], flag)
                    <=> \/ flag \in {SATURATED, DO_NOT_USE}
                        \/ HasFlag(call.pixeldq[p], flag)
            /\ result.image_info.dq[p] < 2 * NO_GAIN_VALUE
        /\ call.n_int = 1 => result.integ_info = None
        /\ call.n_int > 1 =>
            /\ result.integ_info # None
            /\ \A i \in 0..(call.n_int - 1), p \in RampPix :
                /\ AllZero3(result.integ_info,
                            {"data", "var_poisson", "var_rnoise", "err"}, i, p)
                /\ \A flag \in FlagBits :
                    HasFlag(result.integ_info.dq[i][p], flag)
                        <=> \/ flag = DO_NOT_USE
                            \/ \E g \in DOMAIN call.groupdq[i] :
                                    HasFlag(call.groupdq[i][g][p], flag)
                /\ result.integ_info.dq[i][p] < 2 * NO_GAIN_VALUE
        /\ result.opt_info = None <=> ~call.save_opt

\* two integrations, one group of the first with JUMP_DET, a pixel DQ with
\* NO_GAIN_VALUE, optional results asked for
C18_Witness ==
    /\ Returned("do_all_sat")
    /\ call.n_int = 2
    /\ call.save_opt
    /\ \E p \in RampPix :
        /\ call.pixeldq[p] = NO_GAIN_VALUE
        /\ result.image_info.dq[p] = NO_GAIN_VALUE + SATURATED + DO_NOT_USE
        /\ HasFlag(call.groupdq[0][1][p], JUMP_DET)
        /\ result.integ_info.dq[0][p] = JUMP_DET + SATURATED + DO_NOT_USE
        /\ result.integ_info.dq[1][p] = SATURATED + DO_NOT_USE

Magnitudes(cr_mag_seg, i, p) ==
    [k \in 1..Cardinality(DOMAIN cr_mag_seg[i]) |-> cr_mag_seg[i][k - 1][p]]

IsMagnitude(v) == v # 0

\* seq followed by zeros up to length n
ZeroPadded(seq, n) == [k \in 1..n |-> IF k <= Len(seq) THEN seq[k] ELSE 0]

\* C20: after shrink_crmag the group axis of cr_mag_seg is as long as the
\* largest number of non-zero magnitudes of one ramp, over all pixels and
\* all integrations (1 if there is none), and each ramp holds its non-zero
\* magnitudes in group order followed by zeros
C20_NoMagnitudeLost ==
    Returned("shrink_crmag") =>
        LET counts == {Len(SelectSeq(Magnitudes(call.cr_mag_seg, i, p), IsMagnitude)) :
                            i \in DOMAIN call.cr_mag_seg, p \in RampPix}
            depth == IF Max(counts) = 0 THEN 1 ELSE Max(counts)
        IN  /\ ~result.raised
            /\ \A i \in DOMAIN call.cr_mag_seg :
                /\ Cardinality(DOMAIN result.cr_mag_seg[i]) = depth
                /\ \A p \in RampPix :
                    Magnitudes(result.cr_mag_seg, i, p)
                        = ZeroPadded(SelectSeq(Magnitudes(call.cr_mag_seg, i, p),
                                               IsMagnitude), depth)

\* C21: output_optional sets to 0 every entry of var_p_seg and var_r_seg that
\* is strictly greater than 0.4 LARGE_VARIANCE and leaves every entry at or
\* below it unchanged
C21_SegmentVariancesZeroed ==
    Returned("output_optional") =>
        \A name \in {"var_p_seg", "var_r_seg"} :
            \A i \in DOMAIN call.self[name] :
                \A s \in DOMAIN call.self[name][i], p \in RampPix :
                    LET before == call.self[name][i][s][p] IN
                    result[name][i][s][p] =
                        IF 5 * before <= 2 * LARGE_VARIANCE THEN before ELSE 0

\* a Poisson variance of exactly 0.4 LARGE_VARIANCE and a read noise variance
\* just above it in the same segment, beside a segment at LARGE_VARIANCE
C21_Witness ==
    /\ Returned("output_optional")
    /\ \E p \in RampPix, s \in 0..1 :
        /\ 5 * call.self.var_p_seg[0][s][p] = 2 * LARGE_VARIANCE
        /\ result.var_p_seg[0][s][p] # 0
        /\ call.self.var_r_seg[0][s][p] = 40000001
        /\ result.var_r_seg[0][s][p] = 0
    /\ \E p \in RampPix, s \in 0..1 :
        /\ call.self.var_p_seg[0][s][p] = LARGE_VARIANCE
        /\ result.var_p_seg[0][s][p] = 0

\* two read noise arrays hold the same values
SameNoise(a, b) ==
    /\ shape_2d(a) = shape_2d(b)
    /\ \A r \in DOMAIN a : \A c \in DOMAIN a[r] :
        a[r][c][1] * a[r][c][1] * b[r][c][2] * b[r][c][2] * b[r][c][3]
            = b[r][c][1] * b[r][c][1] * a[r][c][2] * a[r][c][2] * a[r][c][3]

\* C22: after ramp_fit_data returns, for any algorithm, the caller's read
\* noise and gain arrays hold the values they held before the call, and a
\* second call with the same arrays uses the read noise the first one used
C22_CallerArraysUnchanged ==
    (Returned("ramp_fit_data") /\ result.last.raised = "") =>
        /\ SameNoise(result.last.readnoise_2d, call.readnoise_2d)
        /\ result.last.gain_2d = call.gain_2d
        /\ (result.first # None /\ result.last.ols_args # None) =>
                SameNoise(result.last.ols_args, result.first.ols_args)

\* the read noise or the gain array has not the rows and columns of the data
Mismatched ==
    \/ shape_2d(call.readnoise_2d) # <<call.ramp_data.shape[3], call.ramp_data.shape[4]>>
    \/ shape_2d(call.gain_2d) # <<call.ramp_data.shape[3], call.ramp_data.shape[4]>>

\* C23: a call of ramp_fit_data with arrays of mismatched shapes fails with an
\* error, and the caller's arrays are as they were before the call
C23_MismatchedShapesRejected ==
    (Returned("ramp_fit_data") /\ result.first = None /\ Mismatched) =>
        /\ result.last.raised # ""
        /\ result.last.ols_args = None
        /\ result.last.readnoise_2d = call.readnoise_2d
        /\ result.last.gain_2d = call.gain_2d

\* the caller's cube is the one-pixel ramp 10, 20, 30, 130, 140, 250, 260
IsExampleRamp ==
    /\ DOMAIN call # {}
    /\ call.fn = "calc_slope_vars of find_crs"
    /\ \A g \in 0..6 : dataa[g][0][0] = <<10, 20, 30, 130, 140, 250, 260>>[g + 1]

\* C24: for the ramp 10, 20, 30, 130, 140, 250, 260 with read noise 1, one
\* frame, thresholds 4 and a clean group DQ, find_crs sets JUMP_DET on groups 3
\* and 5 and on no other group, and calc_slope_vars on that group DQ returns
\* three segments, of lengths 3, 2 and 2
C24_ExampleRamp ==
    (IsExampleRamp /\ pc # "start") =>
        /\ ~ret.raised
        /\ \A g \in 0..6 : ret.gdq[g][0][0] = IF g \in {3, 5} THEN JUMP_DET ELSE 0
        /\ pc = "returned" =>
            \A s \in DOMAIN result.segs_beg_3 :
                result.segs_beg_3[s][0] = IF s < 3 THEN <<3, 2, 2>>[s + 1] ELSE 0

C24_Witness ==
    /\ IsExampleRamp
    /\ pc = "returned"
    /\ ret.gdq[3][0][0] = JUMP_DET
    /\ Cardinality(DOMAIN result.segs_beg_3) = 4
    /\ result.segs_beg_3[2][0] = 2

\* the first differences of the pixel p that find_crs flagged, and its finite ones
FlaggedDiffs(p) == {i \in DOMAIN ret.loops[p].pix_cr_mask : ~ret.loops[p].pix_cr_mask[i]}

FiniteDiffs(p) == Usable(Pix(ret.first_diffs, p[1], p[2]))

\* the first differences flagged before iteration n of the loop of pixel p
FlaggedBefore(p, n) ==
    {nanargmax(Pix(ret.ratio, p[1], p[2]))}
        \cup {ret.loops[p].iters[m].idx : m \in 1..(n - 1)}

\* C27: the refinement loop of every pixel ends; an iteration flags one finite
\* first difference not flagged before or is the last one, an iteration runs
\* only when the one before flagged a difference and more than 2 finite
\* differences remained, the newest flag counted, and at most k - 1 of the k
\* finite first differences of a pixel are flagged
C27_LoopEndsOneLeft ==
    WholeDone =>
        \A p \in ret.all_crs :
            LET st == ret.loops[p]
                k == Cardinality(FiniteDiffs(p))
            IN  /\ Len(st.iters) <= k - 1
                /\ Cardinality(Usable(st.pix_first_diffs)) >= 2
                /\ \A n \in 1..Len(st.iters) :
                    /\ st.iters[n].usable = k - n
                    /\ st.iters[n].usable + 1 > 2
                    /\ n > 1 => st.iters[n - 1].found
                    /\ st.iters[n].found =>
                        /\ st.iters[n].idx \in FiniteDiffs(p)
                        /\ st.iters[n].idx \notin FlaggedBefore(p, n)
                /\ FlaggedDiffs(p) = {i \in FlaggedBefore(p, Len(st.iters) + 1) :
                                        \A n \in 1..Len(st.iters) :
                                            st.iters[n].idx = i => st.iters[n].found}
                                     \cup {nanargmax(Pix(ret.ratio, p[1], p[2]))}
                /\ FlaggedDiffs(p) \subseteq FiniteDiffs(p)
                /\ Cardinality(FlaggedDiffs(p)) <= k - 1

\* a pixel all of whose finite first differences but one were flagged, in a
\* loop of two or more iterations that all flagged
C27_Witness ==
    /\ WholeDone
    /\ \E p \in ret.all_crs :
        /\ Len(ret.loops[p].iters) >= 2
        /\ \A n \in 1..Len(ret.loops[p].iters) : ret.loops[p].iters[n].found
        /\ Cardinality(FlaggedDiffs(p)) = Cardinality(FiniteDiffs(p)) - 1

\* the threshold for a pixel with k finite first differences
ThresholdFor(k) ==
    IF k >= 4 THEN normal_rej_thresh
    ELSE IF k = 3 THEN three_diff_rej_thresh
    ELSE two_diff_rej_thresh

\* the ratio <<n, d>>, n / d the square of the ratio, is above the threshold t
Above(ratio, t) == ~isnan(ratio) /\ ratio[1] > t * t * ratio[2]

\* C28: the initial pass flags a pixel with k finite first differences when k
\* is 2 or more and its largest ratio is strictly above the threshold for k,
\* an iteration of the loop flags when the largest ratio is strictly above the
\* threshold for the number of differences still finite, and detection flags
\* no group of a pixel with k <= 1
C28_ThresholdByCount ==
    WholeDone =>
        \A r \in Rows(dataa), c \in Cols(dataa) :
            LET ratios == Pix(ret.ratio, r, c)
                k == Cardinality(Usable(Pix(ret.first_diffs, r, c)))
            IN  /\ <<r, c>> \in ret.all_crs <=>
                    /\ k >= 2
                    /\ Usable(ratios) # {}
                    /\ Above(ratios[nanargmax(ratios)], ThresholdFor(k))
                /\ <<r, c>> \in ret.all_crs =>
                    \A n \in 1..Len(ret.loops[<<r, c>>].iters) :
                        LET it == ret.loops[<<r, c>>].iters[n] IN
                        /\ it.rej_thresh = ThresholdFor(it.usable)
                        /\ it.found <=> Above(it.max_ratio, ThresholdFor(it.usable))
                /\ (k <= 1 /\ ~ret.raised /\ ~flag_4_neighbors) =>
                    \A g \in DOMAIN group_dq : ret.gdq[g][r][c] = group_dq[g][r][c]

\* a pixel with 3 finite first differences whose largest ratio equals
\* three_diff_rej_thresh and is not flagged, and a pixel flagged by an iteration
\* with 2 differences left whose ratio is above two_diff_rej_thresh only
C28_Witness ==
    /\ WholeDone
    /\ \/ \E r \in Rows(dataa), c \in Cols(dataa) :
            LET ratios == Pix(ret.ratio, r, c) IN
            /\ Cardinality(Usable(Pix(ret.first_diffs, r, c))) = 3
            /\ Usable(ratios) # {}
            /\ ratios[nanargmax(ratios)][1]
                = three_diff_rej_thresh * three_diff_rej_thresh * ratios[nanargmax(ratios)][2]
            /\ <<r, c>> \notin ret.all_crs
       \/ \E p \in ret.all_crs : \E n \in 1..Len(ret.loops[p].iters) :
            LET it == ret.loops[p].iters[n] IN
            /\ it.usable = 2
            /\ it.found
            /\ ~Above(it.max_ratio, three_diff_rej_thresh)

\* the section of the call with the ramp of the other pixel replaced by b
OtherPixel(b) ==
    [g \in DOMAIN call.gdq_sect |-> [p \in RampPix |->
        IF p = 0 THEN call.gdq_sect[g][0] ELSE b[g]]]

\* the segment lengths calc_slope_vars returns for pixel 0 of a section
SegmentsOfFirst(gdq_sect, nan_cast) ==
    LET lengths == calc_slope_vars(call.rn_sect, call.gain_sect, gdq_sect, call.group_time,
                                   call.max_seg, JUMP_DET, nan_cast).segs_beg_3
    IN  [s \in DOMAIN lengths |-> lengths[s][0]]

\* C29: the segment lengths calc_slope_vars returns for a pixel are the same
\* whatever the group DQ of the other pixel is, and no group after the first
\* SATURATED group of a pixel is counted in a segment of that pixel
C29_OwnGroupDqOnly ==
    Returned("calc_slope_vars") =>
        /\ \A b \in GdqCompanions, nan_cast \in NanCasts :
            SegmentsOfFirst(OtherPixel(b), nan_cast)
                = SegmentsOfFirst(call.gdq_sect, nan_cast)
        /\ \A p \in RampPix, g \in DOMAIN call.gdq_sect :
            (\E h \in DOMAIN call.gdq_sect :
                h < g /\ bitwise_and(call.gdq_sect[h][p], SATURATED) # 0)
                    => result.counted[g][p] = 0

\* no np.nanargmax of find_crs raised: the detection went through
Detected == \A p \in ret.all_crs : ~ret.loops[p].raised

\* the jump at group g of row r, column c has its neighbours flagged
Spills(g, r, c) ==
    /\ HasJump(ret.gdq_det[g][r][c])
    /\ in_range(ret.ratio, g, r, c)

\* C30: whenever a jump in the first or in the last row qualifies for
\* neighbour flagging, find_crs returns, the entry of row_below_gdq or
\* row_above_gdq for it is dqflags["JUMP_DET"] itself, whatever bit of a 32-bit
\* word JUMP_DET is, and OR-ing the entry into a group DQ word sets JUMP_DET
C30_SpillOverHoldsJumpDet ==
    (WholeDone /\ flag_4_neighbors /\ Detected) =>
        \A g \in DOMAIN group_dq, c \in Cols(group_dq) :
            /\ Spills(g, 0, c) =>
                /\ ~ret.raised
                /\ ret.row_below_gdq[g][c] = JUMP_DET
                /\ HasJump(bitwise_or(group_dq[g][0][c], ret.row_below_gdq[g][c]))
            /\ Spills(g, LastRow, c) =>
                /\ ~ret.raised
                /\ ret.row_above_gdq[g][c] = JUMP_DET
                /\ HasJump(bitwise_or(group_dq[g][LastRow][c], ret.row_above_gdq[g][c]))

Init == InitPixel \/ InitImage \/ InitMed \/ InitSingles \/ InitSlopeVars
        \/ InitCompress \/ InitFixSat \/ InitGain
        \/ InitAllSat \/ InitAlloc \/ InitCrMag
        \/ InitOptional
        \/ InitRampFit
        \/ InitExample

Next ==
    \/ RunWhole
    \/ RunAgain
    \/ \E b \in 1..2 : RunBand(b)
    \/ JoinBands
    \/ Med3D
    \/ \E c \in 0..1 : Med1D(c)
    \/ RunRemoveBadSingles
    \/ RunCalcSlopeVars
    \/ RunDqCompressFinal
    \/ RunFixSatRamps
    \/ RunResetBadGain
    \/ RunDoAllSat
    \/ RunAllocArrays2
    \/ RunOutputInteg
    \/ RunShrinkCrmag
    \/ RunOutputOptional
    \/ RunRampFitData
    \/ RunRampFitDataAgain
    \/ RunSlopeVarsOfJumps

Spec == Init /\ [][Next]_vars
====
